---------------------------- MODULE Spec2Model ----------------------------
(***************************************************************************)
(* A model of gnaf-loader's pipeline controller (load-gnaf.py): main() and *)
(* the functions it calls, the batches they hand to the multiprocess       *)
(* executor of the geoscape module, and the way a run ends.                *)
(*                                                                         *)
(* The controller is one sequential process: pc is the statement of        *)
(* load-gnaf.py it is about to run.  While it is inside a call of          *)
(* geoscape.multiprocess_list or geoscape.multiprocess_shapefile_load, pc  *)
(* is the name of that function and ret is the statement it returns to.    *)
(* The geoscape and settings modules are not among the source files: the   *)
(* executor is modelled from the specification (sections 4.4 and 5).       *)
(***************************************************************************)
EXTENDS Integers, Sequences, FiniteSets, Bags, TLC

VARIABLES
    pc,             \* the controller's position in load-gnaf.py
    ret,            \* where the executor call in progress returns to
    outcome,        \* "running", or how the process ended
    exitStatus,     \* the process exit status (-1 while running)
    log,            \* the kinds of message written to the log so far
    started,        \* the steps of the run that have started
    args,           \* the toggles of settings (fixed during a run)
    states_to_load, \* settings.states_to_load
    sql_list,       \* the local sql_list of the function in progress
    split_none,     \* the statements for which split_sql_into_list gave None
    items,          \* the work items of the latest batch, with their state
    batchOf,        \* the step that submitted the latest batch
    appends,        \* append_list: the state of each append import
    schema_name,    \* clean_authority_files: its schema_name argument
    create_indexes, \* clean_authority_files: its create_indexes argument
    tables,         \* clean_authority_files: tables still to process
    error_count,    \* clean_authority_files: its error_count
    db,             \* the tables and files a single function works on
    locals          \* the local variables of that function

vars == <<pc, ret, outcome, exitStatus, log, started, args, states_to_load,
          sql_list, split_none, items, batchOf, appends,
          schema_name, create_indexes, tables, error_count, db, locals>>

\* what no step of the controller changes
cfgVars   == <<args, db, locals>>
ctlVars   == <<pc, ret, outcome, exitStatus>>
batchVars == <<sql_list, split_none, items, batchOf>>
cleanVars == <<schema_name, create_indexes, tables, error_count>>

----------------------------------------------------------------------------
(* Bounds of the model *)

\* the longest batch a step submits
MaxBatch == 2
\* the most '%_aut' tables a schema holds
MaxAutTables == 2
\* the most entries of append_list
MaxAppend == 2
\* the worker bound of the pool (settings.max_processes)
MaxProcesses == 2
\* the most partitions split_sql_into_list makes of a statement
MaxParts == 2

None == <<"None">>

\* the values of settings.states_to_load tried
StateLists == { <<"NSW">>, <<"SA">> }

----------------------------------------------------------------------------
(* The log, and how a run ends *)

FATAL_POSTGIS  == "FATAL: Unable to add PostGIS extension"
FATAL_NO_PSV   == "FATAL: No raw GNAF PSV files found"
FATAL_NO_BDYS  == "FATAL: No admin boundary files found"
FATAL_BAD      == "FATAL: Something bad happened!"
INFO_FINISHED  == "INFO: Finished successfully!"
WARN_APPEND    == "WARNING: append import failed"
WARN_PKEY      == "WARNING: CAN'T CREATE PRIMARY KEY"
WARN_NOT_TAGGED == "WARNING: Part 5 of 6 : Addresses NOT boundary tagged"
WARN_NO_ANALYSIS == "WARNING: admin boundaries for analysis NOT created"

Running == outcome = "running"

\* A statement run on pg_cur outside any try: psycopg2.Error reaches the top
\* of the script, and the interpreter ends with a traceback and status 1.
Uncaught(step) ==
    /\ outcome' = "exception"
    /\ exitStatus' = 1
    /\ started' = started \cup {step}
    /\ UNCHANGED <<pc, ret, log>>

\* The controller goes on to statement next, having started step.
Goto(step, next) ==
    /\ pc' = next
    /\ started' = started \cup {step}
    /\ UNCHANGED <<outcome, exitStatus>>

\* pg_cur.execute(...) of one step, with nothing else in it
Execute(step, next) ==
    \/ Goto(step, next) /\ UNCHANGED <<ret, log>>
    \/ Uncaught(step)

----------------------------------------------------------------------------
(* The parallel executor (geoscape.multiprocess_list) *)

Queued(b)   == {i \in DOMAIN b : b[i].st = "queued"}
InFlight(b) == {i \in DOMAIN b : b[i].st = "running"}
Failed(b)   == {i \in DOMAIN b : b[i].st = "FAILED"}
Unfinished(b) == Queued(b) \cup InFlight(b)

\* A list of n statements of one kind
Stmts(kind, n) == [i \in 1..n |-> kind]

\* The batch built from a work list: bad[i] says whether item i, when run,
\* fails in the database
NewBatch(list, bad) ==
    [i \in 1..Len(list) |->
        [src |-> list[i], st |-> "queued", bad |-> bad[i], logged |-> FALSE]]

\* Faulty variant of MultiprocessList: the batch is handed over and the caller goes on without waiting
MultiprocessListNoWait(step, list, cont) ==
    /\ \E bad \in [1..Len(list) -> BOOLEAN] : items' = NewBatch(list, bad)
    /\ batchOf' = step
    /\ sql_list' = list
    /\ pc' = cont
    /\ ret' = cont
    /\ started' = started \cup {step}
    /\ UNCHANGED <<outcome, exitStatus>>

\* The call geoscape.multiprocess_list("sql", list, logger) made by step,
\* which returns to statement cont
MultiprocessList(step, list, cont) ==
    /\ \E bad \in [1..Len(list) -> BOOLEAN] : items' = NewBatch(list, bad)
    /\ batchOf' = step
    /\ sql_list' = list
    /\ pc' = "multiprocess_list"
    /\ ret' = cont
    /\ started' = started \cup {step}
    /\ UNCHANGED <<outcome, exitStatus>>

\* Faulty variant of WorkerMayStart: a queued item is taken whatever the number running
WorkerMayStartUnbounded(i) ==
    items[i].st = "queued"

\* A worker of the pool may take an item while fewer than the bound run
WorkerMayStart(i) ==
    /\ items[i].st = "queued"
    /\ Cardinality(InFlight(items)) < MaxProcesses

WorkerStart ==
    /\ Running
    /\ \E i \in DOMAIN items :
        /\ WorkerMayStart(i)
        /\ items' = [items EXCEPT ![i].st = "running"]
    /\ UNCHANGED <<ctlVars, log, started, cfgVars, states_to_load, sql_list,
                   split_none, batchOf, appends, cleanVars>>

\* Faulty variant of ItemResult: a failing item cancels the items still queued
ItemResultCancelling(b, i) ==
    IF b[i].bad
    THEN [j \in DOMAIN b |->
            IF j = i THEN [b[j] EXCEPT !.st = "FAILED"]
            ELSE IF b[j].st = "queued" THEN [b[j] EXCEPT !.st = "cancelled"]
            ELSE b[j]]
    ELSE [b EXCEPT ![i].st = "SUCCESS"]

\* Faulty variant of ItemResult: an item that fails is queued again
ItemResultRetrying(b, i) ==
    [b EXCEPT ![i].st = IF b[i].bad THEN "queued" ELSE "SUCCESS"]

\* What the end of item i does to the batch: its own result, nothing else
ItemResult(b, i) ==
    [b EXCEPT ![i].st = IF b[i].bad THEN "FAILED" ELSE "SUCCESS"]

WorkerFinish ==
    /\ Running
    /\ \E i \in InFlight(items) : items' = ItemResult(items, i)
    /\ UNCHANGED <<ctlVars, log, started, cfgVars, states_to_load, sql_list,
                   split_none, batchOf, appends, cleanVars>>

\* The pool is joined: the call returns once no item is left to run
JoinReady(b) == Unfinished(b) = {}

\* On return every failed item's result is logged as a warning (kept with
\* the item: logged)
LogResults(b) ==
    [i \in DOMAIN b |-> [b[i] EXCEPT !.logged = (b[i].st = "FAILED")]]

\* Faulty variant of MultiprocessListReturn: the join logs the results and
\* goes on waiting instead of returning to its caller.
MultiprocessListReturnWaits ==
    /\ Running
    /\ pc \in {"multiprocess_list", "multiprocess_shapefile_load"}
    /\ JoinReady(items)
    /\ items' = LogResults(items)
    /\ pc' = pc
    /\ UNCHANGED <<ret, outcome, exitStatus, log, started, cfgVars, states_to_load,
                   sql_list, split_none, batchOf, appends, cleanVars>>

MultiprocessListReturn ==
    /\ Running
    /\ pc \in {"multiprocess_list", "multiprocess_shapefile_load"}
    /\ JoinReady(items)
    /\ items' = LogResults(items)
    /\ pc' = ret
    /\ UNCHANGED <<ret, outcome, exitStatus, log, started, cfgVars, states_to_load,
                   sql_list, split_none, batchOf, appends, cleanVars>>

----------------------------------------------------------------------------
(* main: connection, arguments, Part 1 *)

Init ==
    /\ pc = "connect"
    /\ ret = "none"
    /\ outcome = "running"
    /\ exitStatus = -1
    /\ log = {}
    /\ started = {}
    /\ args \in [vacuum_db : BOOLEAN, primary_foreign_keys : BOOLEAN,
                 no_boundary_tag : BOOLEAN, st_subdivide_supported : BOOLEAN]
    /\ states_to_load \in StateLists
    /\ sql_list = <<>>
    /\ split_none = {}
    /\ items = <<>>
    /\ batchOf = "none"
    /\ appends = <<>>
    /\ schema_name = "none"
    /\ create_indexes = FALSE
    /\ tables = 0
    /\ error_count = 0
    /\ db = <<>>
    /\ locals = <<>>

\* Faulty variant of Connect: the fatal message is logged and main goes on to Part 1
ConnectLogsAndGoesOn ==
    /\ Running /\ pc = "connect"
    /\ \/ Goto("connect", "create_schemas") /\ UNCHANGED <<ret, log>>
       \/ /\ log' = log \cup {FATAL_POSTGIS}
          /\ Goto("connect", "create_schemas")
          /\ UNCHANGED ret
       \/ Uncaught("connect")
    /\ UNCHANGED <<cfgVars, states_to_load, batchVars, appends, cleanVars>>

\* psycopg2.connect, then CREATE EXTENSION in a try: on psycopg2.Error main
\* logs a fatal message and returns False
Connect ==
    /\ Running /\ pc = "connect"
    /\ \/ Goto("connect", "create_schemas") /\ UNCHANGED <<ret, log>>
       \/ /\ log' = log \cup {FATAL_POSTGIS}
          /\ pc' = "main_returned_false"
          /\ started' = started \cup {"connect"}
          /\ UNCHANGED <<ret, outcome, exitStatus>>
       \/ Uncaught("connect")
    /\ UNCHANGED <<cfgVars, states_to_load, batchVars, appends, cleanVars>>

CreateSchemas ==
    /\ Running /\ pc = "create_schemas"
    /\ Execute("create_schemas", "drop_tables_and_vacuum_db")
    /\ UNCHANGED <<cfgVars, states_to_load, batchVars, appends, cleanVars>>

----------------------------------------------------------------------------
(* Part 2: raw GNAF load *)

DropTablesAndVacuumDb ==
    /\ Running /\ pc = "drop_tables_and_vacuum_db"
    /\ \/ /\ pc' = "create_raw_gnaf_tables"
          /\ started' = started \cup {"drop_tables"}
                          \cup (IF args.vacuum_db THEN {"vacuum"} ELSE {})
          /\ UNCHANGED <<ret, outcome, exitStatus, log>>
       \/ Uncaught("drop_tables")
    /\ UNCHANGED <<cfgVars, states_to_load, batchVars, appends, cleanVars>>

CreateRawGnafTables ==
    /\ Running /\ pc = "create_raw_gnaf_tables"
    /\ Execute("create_raw_gnaf_tables", "populate_raw_gnaf")
    /\ UNCHANGED <<cfgVars, states_to_load, batchVars, appends, cleanVars>>

\* What populate_raw_gnaf does once its file list holds n COPY statements
PopulateBranch(n) ==
    IF n = 0
    THEN /\ log' = log \cup {FATAL_NO_PSV}
         /\ Goto("populate_raw_gnaf", "clean_gnaf")
         /\ UNCHANGED <<ret, batchVars>>
    ELSE /\ MultiprocessList("populate_raw_gnaf", Stmts("COPY", n),
                             "fix_missing_geocodes")
         /\ UNCHANGED <<log, split_none>>

\* get_raw_gnaf_files for "authority_code" and every state: n files found
PopulateRawGnaf ==
    /\ Running /\ pc = "populate_raw_gnaf"
    /\ \E n \in 0..MaxBatch : PopulateBranch(n)
    /\ UNCHANGED <<cfgVars, states_to_load, appends, cleanVars>>

FixMissingGeocodes ==
    /\ Running /\ pc = "fix_missing_geocodes"
    /\ Execute("fix_missing_geocodes", "clean_gnaf")
    /\ UNCHANGED <<cfgVars, states_to_load, batchVars, appends, cleanVars>>

----------------------------------------------------------------------------
(* clean_authority_files *)

\* Faulty variant of Exit: the statements of the run are undone as the
\* interpreter ends, as if the connection held one open transaction.
ExitRollsBack ==
    /\ outcome' = "exit"
    /\ exitStatus' = 0
    /\ started' = {}
    /\ UNCHANGED <<pc, ret, log>>

\* exit() with no argument raises SystemExit(None): the interpreter ends
\* at once, with status 0, and main never returns
Exit ==
    /\ outcome' = "exit"
    /\ exitStatus' = 0
    /\ UNCHANGED <<pc, ret, log, started>>

\* The call clean_authority_files(pg_cur, schema, ci) made at statement at,
\* up to the fetch of the schema's '%_aut' tables
CleanAuthorityFilesCall(at, schema, ci, cont) ==
    /\ Running /\ pc = at
    /\ \/ /\ \E n \in 0..MaxAutTables : tables' = n
          /\ schema_name' = schema
          /\ create_indexes' = ci
          /\ error_count' = 0
          /\ pc' = "clean_loop"
          /\ ret' = cont
          /\ started' = started \cup {at}
          /\ UNCHANGED <<outcome, exitStatus, log>>
       \/ Uncaught(at) /\ UNCHANGED cleanVars
    /\ UNCHANGED <<cfgVars, states_to_load, batchVars, appends>>

CleanGnaf == CleanAuthorityFilesCall("clean_gnaf", "raw_gnaf", FALSE, "index_raw_gnaf")

CleanBdys == CleanAuthorityFilesCall("clean_bdys", "raw_admin_bdys", TRUE, "prep_admin_bdys")

\* Faulty variant of CleanTable: the run is ended as soon as a primary key fails
CleanTableExitsAtOnce ==
    /\ Running /\ pc = "clean_loop" /\ tables > 0
    /\ \/ /\ tables' = tables - 1
          /\ UNCHANGED <<error_count, log>>
          /\ UNCHANGED <<ctlVars, started, schema_name, create_indexes>>
       \/ /\ create_indexes
          /\ error_count' = error_count + 1
          /\ log' = log \cup {WARN_PKEY}
          /\ outcome' = "exit" /\ exitStatus' = 0
          /\ UNCHANGED <<pc, ret, started, schema_name, create_indexes, tables>>
       \/ /\ outcome' = "exception" /\ exitStatus' = 1
          /\ UNCHANGED <<pc, ret, log, started, cleanVars>>
    /\ UNCHANGED <<cfgVars, states_to_load, batchVars, appends>>

\* One pass of the loop over the tables: renames (each in a try that
\* passes), the dedup, and with create_indexes the primary key on code, whose
\* failure counts an error and logs a warning
CleanTable ==
    /\ Running /\ pc = "clean_loop" /\ tables > 0
    /\ \/ /\ tables' = tables - 1
          /\ \/ UNCHANGED <<error_count, log>>
             \/ /\ create_indexes
                /\ error_count' = error_count + 1
                /\ log' = log \cup {WARN_PKEY}
          /\ UNCHANGED <<ctlVars, started, schema_name, create_indexes>>
       \/ /\ outcome' = "exception" /\ exitStatus' = 1
          /\ UNCHANGED <<pc, ret, log, started, cleanVars>>
    /\ UNCHANGED <<cfgVars, states_to_load, batchVars, appends>>

\* Faulty variant of CleanDecide: the error count is ignored and the function returns
CleanDecideNoExit ==
    /\ pc' = ret
    /\ UNCHANGED <<ret, outcome, exitStatus, log, started>>

\* After the loop: exit() when a primary key could not be created
CleanDecide ==
    IF error_count > 0
    THEN Exit
    ELSE /\ pc' = ret
         /\ UNCHANGED <<ret, outcome, exitStatus, log, started>>

CleanEnd ==
    /\ Running /\ pc = "clean_loop" /\ tables = 0
    /\ CleanDecide
    /\ UNCHANGED <<cfgVars, states_to_load, batchVars, appends, cleanVars>>

----------------------------------------------------------------------------
(* Part 2, continued *)

IndexRawGnaf ==
    /\ Running /\ pc = "index_raw_gnaf"
    /\ \E n \in 1..MaxBatch :
        MultiprocessList("index_raw_gnaf", Stmts("CREATE INDEX", n),
                         "primary_foreign_keys")
    /\ UNCHANGED <<log, split_none, cfgVars, states_to_load, appends, cleanVars>>

\* Faulty variant of CreatePrimaryForeignKeys: the keys are created whatever the toggle
CreatePrimaryForeignKeysAlways ==
    /\ Running /\ pc = "primary_foreign_keys"
    /\ \E n \in 1..MaxBatch :
            MultiprocessList("create_primary_foreign_keys",
                             Stmts("ALTER TABLE", n),
                             "analyse_raw_gnaf_tables")
    /\ UNCHANGED <<log, split_none>>
    /\ UNCHANGED <<cfgVars, states_to_load, appends, cleanVars>>

\* main: if settings.primary_foreign_keys: create_primary_foreign_keys()
CreatePrimaryForeignKeys ==
    /\ Running /\ pc = "primary_foreign_keys"
    /\ IF args.primary_foreign_keys
       THEN /\ \E n \in 1..MaxBatch :
                MultiprocessList("create_primary_foreign_keys",
                                 Stmts("ALTER TABLE", n),
                                 "analyse_raw_gnaf_tables")
            /\ UNCHANGED <<log, split_none>>
       ELSE /\ pc' = "analyse_raw_gnaf_tables"
            /\ UNCHANGED <<ret, outcome, exitStatus, log, started, batchVars>>
    /\ UNCHANGED <<cfgVars, states_to_load, appends, cleanVars>>

AnalyseRawGnafTables ==
    /\ Running /\ pc = "analyse_raw_gnaf_tables"
    /\ \/ /\ \E n \in 0..MaxBatch :
                MultiprocessList("analyse_raw_gnaf_tables",
                                 Stmts("ANALYZE", n), "reset_search_path")
          /\ UNCHANGED <<log, split_none>>
       \/ Uncaught("analyse_raw_gnaf_tables") /\ UNCHANGED batchVars
    /\ UNCHANGED <<cfgVars, states_to_load, appends, cleanVars>>

\* Faulty variant of ResetSearchPath: main goes on to Part 4 with Part 3 left out
ResetSearchPathThenPart4 ==
    /\ Running /\ pc = "reset_search_path"
    /\ Execute("reset_search_path", "create_reference_tables")
    /\ UNCHANGED <<cfgVars, states_to_load, batchVars, appends, cleanVars>>

ResetSearchPath ==
    /\ Running /\ pc = "reset_search_path"
    /\ Execute("reset_search_path", "load_raw_admin_boundaries")
    /\ UNCHANGED <<cfgVars, states_to_load, batchVars, appends, cleanVars>>

----------------------------------------------------------------------------
(* Part 3: raw admin boundary load *)

\* What load_raw_admin_boundaries does with create_list of nc entries and
\* append_list of na: no import at all when create_list is empty
LoadBranch(nc, na) ==
    IF nc = 0
    THEN /\ log' = log \cup {FATAL_NO_BDYS}
         /\ Goto("load_raw_admin_boundaries", "clean_bdys")
         /\ UNCHANGED <<ret, batchVars, appends>>
    ELSE /\ items' \in {NewBatch(Stmts("create import", nc), bad) :
                            bad \in [1..nc -> BOOLEAN]}
         /\ batchOf' = "load_raw_admin_boundaries"
         /\ appends' = [i \in 1..na |-> "pending"]
         /\ pc' = "multiprocess_shapefile_load"
         /\ ret' = "append_loop"
         /\ started' = started \cup {"load_raw_admin_boundaries"}
         /\ UNCHANGED <<outcome, exitStatus, log, sql_list, split_none>>

\* An entry reaches append_list only for a table already in table_list, so
\* append_list is empty whenever create_list is
LoadRawAdminBoundaries ==
    /\ Running /\ pc = "load_raw_admin_boundaries"
    /\ \/ /\ states_to_load' = Append(states_to_load, "authority_code")
          /\ \E nc \in 0..MaxBatch, na \in 0..MaxAppend :
                /\ nc = 0 => na = 0
                /\ LoadBranch(nc, na)
       \/ /\ Uncaught("load_raw_admin_boundaries")
          /\ UNCHANGED <<states_to_load, batchVars, appends>>
    /\ UNCHANGED <<cfgVars, cleanVars>>

AppendDone(i) == appends[i] \in {"SUCCESS", "FAILED"}

\* Faulty variant of AppendMayStart: the appends are started like pool items, without waiting
AppendMayStartParallel(i) ==
    /\ pc \in {"multiprocess_shapefile_load", "append_loop"}
    /\ appends[i] = "pending"

\* The for loop over append_list: import i is called when the controller is
\* in the loop and every earlier import has returned
AppendMayStart(i) ==
    /\ pc = "append_loop"
    /\ appends[i] = "pending"
    /\ \A j \in 1..(i - 1) : AppendDone(j)

AppendImportStart ==
    /\ Running
    /\ \E i \in DOMAIN appends :
        /\ AppendMayStart(i)
        /\ appends' = [appends EXCEPT ![i] = "running"]
    /\ UNCHANGED <<ctlVars, log, started, cfgVars, states_to_load, batchVars,
                   cleanVars>>

\* Faulty variant of AppendImportFinish: a failed import ends the loop
AppendImportFinishBreaks ==
    /\ Running
    /\ \E i \in DOMAIN appends :
        /\ appends[i] = "running"
        /\ \/ /\ appends' = [appends EXCEPT ![i] = "SUCCESS"]
              /\ UNCHANGED <<log, ctlVars>>
           \/ /\ appends' = [appends EXCEPT ![i] = "FAILED"]
              /\ log' = log \cup {WARN_APPEND}
              /\ pc' = "clean_bdys"
              /\ UNCHANGED <<ret, outcome, exitStatus>>
    /\ UNCHANGED <<started, cfgVars, states_to_load, batchVars, cleanVars>>

\* import_shapefile_to_postgres returns; anything but "SUCCESS" is logged
\* as a warning
AppendImportFinish ==
    /\ Running
    /\ \E i \in DOMAIN appends :
        /\ appends[i] = "running"
        /\ \/ /\ appends' = [appends EXCEPT ![i] = "SUCCESS"]
              /\ UNCHANGED log
           \/ /\ appends' = [appends EXCEPT ![i] = "FAILED"]
              /\ log' = log \cup {WARN_APPEND}
    /\ UNCHANGED <<ctlVars, started, cfgVars, states_to_load, batchVars,
                   cleanVars>>

\* The loop is over and the function returns: its list is gone
AppendLoopEnd ==
    /\ Running /\ pc = "append_loop"
    /\ \A i \in DOMAIN appends : AppendDone(i)
    /\ pc' = "clean_bdys"
    /\ appends' = <<>>
    /\ UNCHANGED <<ret, outcome, exitStatus, log, started, cfgVars,
                   states_to_load, batchVars, cleanVars>>

PrepAdminBdys ==
    /\ Running /\ pc = "prep_admin_bdys"
    /\ \E n \in 1..MaxBatch :
        MultiprocessList("prep_admin_bdys", Stmts("prep", n),
                         "prep_admin_bdys_sa")
    /\ UNCHANGED <<log, split_none, cfgVars, states_to_load, appends, cleanVars>>

InList(x, list) == \E i \in DOMAIN list : list[i] = x

\* Special case: remove the custom outback bdy if "SA" is not requested
PrepAdminBdysOutback ==
    /\ Running /\ pc = "prep_admin_bdys_sa"
    /\ \/ /\ pc' = "create_admin_bdys_for_analysis"
          /\ started' = IF InList("SA", states_to_load) THEN started
                        ELSE started \cup {"delete_outback_bdy"}
          /\ UNCHANGED <<ret, outcome, exitStatus, log>>
       \/ /\ ~InList("SA", states_to_load)
          /\ Uncaught("delete_outback_bdy")
    /\ UNCHANGED <<cfgVars, states_to_load, batchVars, appends, cleanVars>>

CreateAdminBdysForAnalysis ==
    /\ Running /\ pc = "create_admin_bdys_for_analysis"
    /\ IF args.st_subdivide_supported
       THEN /\ \E n \in 1..MaxBatch :
                MultiprocessList("create_admin_bdys_for_analysis",
                                 Stmts("analysis table", n),
                                 "create_reference_tables")
            /\ UNCHANGED <<log, split_none>>
       ELSE /\ log' = log \cup {WARN_NO_ANALYSIS}
            /\ Goto("create_admin_bdys_for_analysis", "create_reference_tables")
            /\ UNCHANGED <<ret, batchVars>>
    /\ UNCHANGED <<cfgVars, states_to_load, appends, cleanVars>>

----------------------------------------------------------------------------
(* Part 4: reference tables *)

\* What geoscape.split_sql_into_list may return for statement src: None,
\* or the list of its partitions
SplitSqlIntoList(src) == {None} \cup {Stmts(src, n) : n \in 1..MaxParts}

\* A call site of split_sql_into_list in step, the statement being src:
\*     if sql_list is not None: geoscape.multiprocess_list("sql", sql_list, logger)
\* and then the statement cont
SplitAndRun(step, src, result, cont) ==
    IF result # None
    THEN /\ MultiprocessList(step, result, cont)
         /\ split_none' = {}
         /\ UNCHANGED log
    ELSE /\ sql_list' = None
         /\ split_none' = {src}
         /\ Goto(step, cont)
         /\ UNCHANGED <<ret, log, items, batchOf>>

\* The steps of create_reference_tables that are one or two pg_cur.execute
RefNext ==
    [ref_1 |-> "ref_2", ref_2 |-> "ref_3", ref_3 |-> "ref_4",
     ref_4 |-> "ref_5", ref_5 |-> "ref_6", ref_6 |-> "ref_7",
     ref_7_analyze |-> "ref_8", ref_8 |-> "ref_9", ref_9 |-> "ref_10",
     ref_10 |-> "ref_11", ref_11 |-> "ref_12", ref_12_drop |-> "ref_13"]

RefDirect == {"ref_1", "ref_2", "ref_3", "ref_4", "ref_5", "ref_6",
              "ref_7_analyze", "ref_8", "ref_9", "ref_10", "ref_11",
              "ref_12_drop"}

\* main calls create_reference_tables, which resets the search path
CreateReferenceTables ==
    /\ Running /\ pc = "create_reference_tables"
    /\ Execute("create_reference_tables", "ref_1")
    /\ UNCHANGED <<cfgVars, states_to_load, batchVars, appends, cleanVars>>

ReferenceExecute ==
    /\ Running /\ pc \in RefDirect
    /\ Execute(pc, RefNext[pc])
    /\ UNCHANGED <<cfgVars, states_to_load, batchVars, appends, cleanVars>>

\* Step 7 of 14 : populate addresses, split on the streets table
ReferenceStep7 ==
    /\ Running /\ pc = "ref_7"
    /\ \E r \in SplitSqlIntoList("populate-addresses-1") :
        SplitAndRun("ref_7", "populate-addresses-1", r, "ref_7_analyze")
    /\ UNCHANGED <<cfgVars, states_to_load, appends, cleanVars>>

\* Step 12 of 14 : finalise addresses, split on the localities table
ReferenceStep12 ==
    /\ Running /\ pc = "ref_12"
    /\ \E r \in SplitSqlIntoList("populate-addresses-2") :
        SplitAndRun("ref_12", "populate-addresses-2", r, "ref_12_drop")
    /\ UNCHANGED <<cfgVars, states_to_load, appends, cleanVars>>

\* Step 13 of 14 : one statement for each entry of settings.states_to_load
ReferenceStep13 ==
    /\ Running /\ pc = "ref_13"
    /\ MultiprocessList("ref_13", states_to_load, "ref_13a")
    /\ UNCHANGED <<log, split_none, cfgVars, states_to_load, appends, cleanVars>>

ReferenceStep13a ==
    /\ Running /\ pc = "ref_13a"
    /\ \/ /\ pc' = "ref_14"
          /\ started' = IF args.st_subdivide_supported
                        THEN started \cup {"ref_13a"} ELSE started
          /\ UNCHANGED <<ret, outcome, exitStatus, log>>
       \/ /\ args.st_subdivide_supported
          /\ Uncaught("ref_13a")
    /\ UNCHANGED <<cfgVars, states_to_load, batchVars, appends, cleanVars>>

\* Step 14 of 14 : create indexes, primary and foreign keys
ReferenceStep14 ==
    /\ Running /\ pc = "ref_14"
    /\ \E n \in 1..MaxBatch :
        MultiprocessList("ref_14", Stmts("reference index", n), "part_5")
    /\ UNCHANGED <<log, split_none, cfgVars, states_to_load, appends, cleanVars>>

----------------------------------------------------------------------------
(* Part 5: boundary tagging *)

\* settings.admin_bdy_list without locality_bdys, postcode_bdys, state_bdys
\* settings.admin_bdy_list, by table name
AdminBdyList ==
    <<"commonwealth_electorates", "local_government_areas", "locality_bdys",
      "postcode_bdys", "state_bdys">>

\* the boundaries whose IDs the addresses hold already
AlreadyAssigned == {"locality_bdys", "postcode_bdys", "state_bdys"}

\* for table in settings.admin_bdy_list: if table[0] not in [...]
BdyTables == SelectSeq(AdminBdyList, LAMBDA t : t \notin AlreadyAssigned)

\* Faulty variant of TagTables: the full tables are read whether or not analysis tables exist
TagTablesFull == BdyTables

\* boundary_tag_gnaf's table_list
TagTables ==
    [i \in DOMAIN BdyTables |->
        IF args.st_subdivide_supported
        THEN BdyTables[i] \o "_analysis" ELSE BdyTables[i]]

\* Faulty variant of Part5: the test of settings.no_boundary_tag is inverted
Part5Inverted ==
    /\ Running /\ pc = "part_5"
    /\ IF ~args.no_boundary_tag
       THEN /\ log' = log \cup {WARN_NOT_TAGGED}
            /\ pc' = "create_qa_tables"
            /\ UNCHANGED <<ret, outcome, exitStatus, started>>
       ELSE /\ pc' = "tag_create_tables"
            /\ started' = started \cup {"boundary_tag_gnaf"}
            /\ UNCHANGED <<ret, outcome, exitStatus, log>>
    /\ UNCHANGED <<cfgVars, states_to_load, batchVars, appends, cleanVars>>

\* main: Part 5 is skipped, with a warning, when settings.no_boundary_tag
Part5 ==
    /\ Running /\ pc = "part_5"
    /\ IF args.no_boundary_tag
       THEN /\ log' = log \cup {WARN_NOT_TAGGED}
            /\ pc' = "create_qa_tables"
            /\ UNCHANGED <<ret, outcome, exitStatus, started>>
       ELSE /\ pc' = "tag_create_tables"
            /\ started' = started \cup {"boundary_tag_gnaf"}
            /\ UNCHANGED <<ret, outcome, exitStatus, log>>
    /\ UNCHANGED <<cfgVars, states_to_load, batchVars, appends, cleanVars>>

\* the output tables and the temporary tag tables, created on pg_cur
TagCreateTables ==
    /\ Running /\ pc = "tag_create_tables"
    /\ Execute("tag_create_tables", "tag_split")
    /\ UNCHANGED <<cfgVars, states_to_load, batchVars, appends, cleanVars>>

RECURSIVE Concat(_)
Concat(lists) ==
    IF lists = <<>> THEN <<>> ELSE Head(lists) \o Concat(Tail(lists))

\* The loop over table_list of Step 1 of 7: a template whose split is None
\* adds nothing to sql_list
TagSqlList(results) ==
    Concat([i \in DOMAIN results |->
                IF results[i] # None THEN results[i] ELSE <<>>])

\* Step 1 of 7 : sql_list is a list here, never None, so the batch is
\* always submitted
TagSplit ==
    /\ Running /\ pc = "tag_split"
    /\ \E results \in [DOMAIN TagTables ->
                          UNION {SplitSqlIntoList(TagTables[i]) : i \in DOMAIN TagTables}] :
        /\ \A i \in DOMAIN TagTables : results[i] \in SplitSqlIntoList(TagTables[i])
        /\ Len(TagSqlList(results)) <= MaxBatch
        /\ MultiprocessList("tag_split", TagSqlList(results), "tag_delete")
        /\ split_none' = {TagTables[i] : i \in {j \in DOMAIN TagTables : results[j] = None}}
    /\ UNCHANGED <<log, cfgVars, states_to_load, appends, cleanVars>>

\* Faulty variant of TagDelete: the temporary tables are dropped next, before the insert
TagDeleteThenDrop ==
    /\ Running /\ pc = "tag_delete"
    /\ MultiprocessList("tag_delete", TagTables, "tag_drop_temp")
    /\ UNCHANGED <<log, split_none, cfgVars, states_to_load, appends, cleanVars>>

\* Step 2 of 7 : delete invalid matches, one statement for each table
TagDelete ==
    /\ Running /\ pc = "tag_delete"
    /\ MultiprocessList("tag_delete", TagTables, "tag_insert")
    /\ UNCHANGED <<log, split_none, cfgVars, states_to_load, appends, cleanVars>>

\* Step 3 of 7 : the insert into the output table, split on address_principals
TagInsert ==
    /\ Running /\ pc = "tag_insert"
    /\ \E r \in SplitSqlIntoList("insert-principal") :
        SplitAndRun("tag_insert", "insert-principal", r, "tag_drop_temp")
    /\ UNCHANGED <<cfgVars, states_to_load, appends, cleanVars>>

TagDropTemp ==
    /\ Running /\ pc = "tag_drop_temp"
    /\ Execute("tag_drop_temp", "tag_finish")
    /\ UNCHANGED <<cfgVars, states_to_load, batchVars, appends, cleanVars>>

\* Steps 4 to 7 of 7, all on pg_cur
TagFinish ==
    /\ Running /\ pc = "tag_finish"
    /\ Execute("tag_finish", "create_qa_tables")
    /\ UNCHANGED <<cfgVars, states_to_load, batchVars, appends, cleanVars>>

----------------------------------------------------------------------------
(* Part 6 and the end of a run *)

WARN_NO_PREVIOUS == "WARNING: Previous schema doesn't exist"

\* One pass of create_qa_tables' loop over the two schemas: the counts,
\* then the comparison when the previous schema exists, a warning otherwise
QaSchema(at, next) ==
    /\ Running /\ pc = at
    /\ \/ Goto(at, next) /\ UNCHANGED <<ret, log>>
       \/ /\ log' = log \cup {WARN_NO_PREVIOUS}
          /\ Goto(at, next)
          /\ UNCHANGED ret
       \/ Uncaught(at)
    /\ UNCHANGED <<cfgVars, states_to_load, batchVars, appends, cleanVars>>

CreateQaTablesGnaf == QaSchema("create_qa_tables", "create_qa_tables_bdys")

CreateQaTablesBdys == QaSchema("create_qa_tables_bdys", "close")

\* main closes the connection and returns True
MainReturnTrue ==
    /\ Running /\ pc = "close"
    /\ pc' = "main_returned_true"
    /\ UNCHANGED <<ret, outcome, exitStatus, log, started, cfgVars,
                   states_to_load, batchVars, appends, cleanVars>>

\* if main(): "Finished successfully!" else: "Something bad happened!";
\* either way the script runs to its end, and the interpreter ends with 0
ScriptEnd ==
    /\ Running /\ pc \in {"main_returned_true", "main_returned_false"}
    /\ IF pc = "main_returned_true"
       THEN outcome' = "success" /\ log' = log \cup {INFO_FINISHED}
       ELSE outcome' = "failure" /\ log' = log \cup {FATAL_BAD}
    /\ exitStatus' = 0
    /\ UNCHANGED <<pc, ret, started, cfgVars, states_to_load, batchVars,
                   appends, cleanVars>>

----------------------------------------------------------------------------

Next ==
    \/ Connect \/ CreateSchemas
    \/ DropTablesAndVacuumDb \/ CreateRawGnafTables
    \/ PopulateRawGnaf \/ FixMissingGeocodes
    \/ CleanGnaf \/ CleanBdys \/ CleanTable \/ CleanEnd
    \/ IndexRawGnaf \/ CreatePrimaryForeignKeys
    \/ AnalyseRawGnafTables \/ ResetSearchPath
    \/ LoadRawAdminBoundaries
    \/ AppendImportStart \/ AppendImportFinish \/ AppendLoopEnd
    \/ PrepAdminBdys \/ PrepAdminBdysOutback \/ CreateAdminBdysForAnalysis
    \/ CreateReferenceTables \/ ReferenceExecute
    \/ ReferenceStep7 \/ ReferenceStep12 \/ ReferenceStep13
    \/ ReferenceStep13a \/ ReferenceStep14
    \/ Part5 \/ TagCreateTables \/ TagSplit \/ TagDelete \/ TagInsert
    \/ TagDropTemp \/ TagFinish
    \/ CreateQaTablesGnaf \/ CreateQaTablesBdys
    \/ MainReturnTrue \/ ScriptEnd
    \/ WorkerStart \/ WorkerFinish \/ MultiprocessListReturn

Spec == Init /\ [][Next]_vars

----------------------------------------------------------------------------
(* The steps of a run, by part *)

Part2AfterPopulate ==
    {"clean_gnaf", "index_raw_gnaf", "create_primary_foreign_keys",
     "analyse_raw_gnaf_tables", "reset_search_path"}

Part3AfterLoad ==
    {"clean_bdys", "prep_admin_bdys", "delete_outback_bdy",
     "create_admin_bdys_for_analysis"}

Part3AfterClean ==
    {"prep_admin_bdys", "delete_outback_bdy", "create_admin_bdys_for_analysis"}

Part4Steps ==
    {"create_reference_tables", "ref_1", "ref_2", "ref_3", "ref_4", "ref_5",
     "ref_6", "ref_7", "ref_7_analyze", "ref_8", "ref_9", "ref_10", "ref_11",
     "ref_12", "ref_12_drop", "ref_13", "ref_13a", "ref_14"}

Part5Steps ==
    {"boundary_tag_gnaf", "tag_create_tables", "tag_split", "tag_delete",
     "tag_insert", "tag_drop_temp", "tag_finish"}

Part6Steps == {"create_qa_tables", "create_qa_tables_bdys"}

ExecutorCalls == {"multiprocess_list", "multiprocess_shapefile_load"}

\* the controller is not inside an executor call, and a batch was submitted
BatchReturned == pc \notin ExecutorCalls /\ batchOf # "none"

----------------------------------------------------------------------------
(* The claims *)

\* C1: when populate_raw_gnaf finds no PSV file at all, the run aborts: no
\* later step (authority-table cleaning, indexes, keys, analyse, Parts 3 to
\* 6) starts.  The code logs the fatal message and goes on.
C1_NoPsvFilesAborts ==
    FATAL_NO_PSV \in log =>
        started \cap (Part2AfterPopulate \cup {"load_raw_admin_boundaries"}
                      \cup Part3AfterLoad \cup Part4Steps \cup Part5Steps
                      \cup Part6Steps) = {}

\* C2: when, with create_indexes true, the primary key on code cannot be
\* added to some authority table, nothing after clean_authority_files
\* starts in that run: not prep_admin_bdys, the analysis tables, the
\* reference tables, boundary tagging nor QA.
C2_PkeyFailureStopsRun ==
    (create_indexes /\ error_count > 0) =>
        /\ pc = "clean_loop"
        /\ started \cap (Part3AfterClean \cup Part4Steps \cup Part5Steps
                         \cup Part6Steps) = {}
        /\ outcome \notin {"success", "failure"}

C2_Witness ==
    /\ outcome = "exit"
    /\ create_indexes /\ error_count > 0
    /\ tables = 0

\* C3: when the cleaner ends the run over duplicate codes, the process exit
\* status is non-zero and the run is reported as failed.  The code calls
\* exit() with no argument: status 0, and nothing is reported.
C3_CleanerExitIsFailure ==
    outcome = "exit" => (exitStatus # 0 /\ FATAL_BAD \in log)

\* C4: a run ends in success (main returns True, "Finished successfully!")
\* only if no fatal condition was logged in it.
C4_SuccessOnlyWithoutFatal ==
    outcome = "success" =>
        log \cap {FATAL_POSTGIS, FATAL_NO_PSV, FATAL_NO_BDYS} = {}

\* C5: when load_raw_admin_boundaries finds no boundary file, no import is
\* attempted and the run aborts: no later step (clean_authority_files on
\* the raw boundary schema, prep_admin_bdys, analysis tables, Parts 4 to 6)
\* starts.  The code logs the fatal message and goes on.
C5_NoBdyFilesAborts ==
    FATAL_NO_BDYS \in log =>
        /\ batchOf # "load_raw_admin_boundaries"
        /\ appends = <<>>
        /\ started \cap (Part3AfterLoad \cup Part4Steps \cup Part5Steps
                         \cup Part6Steps) = {}

\* C6: a statement for which split_sql_into_list returned None is still
\* run, exactly once, as a single statement, at every call site.  The code
\* runs nothing for it.
C6_UnsplitStatementRunsOnce ==
    \A src \in split_none :
        pc \notin ExecutorCalls =>
            Cardinality({i \in DOMAIN items :
                            /\ items[i].src = src
                            /\ items[i].st \in {"SUCCESS", "FAILED"}}) = 1

\* C7: a statement that fails inside boundary tagging is absorbed: the run
\* does not end abnormally there, and QA still runs.  The statements that
\* boundary_tag_gnaf runs on pg_cur are in no try.
C7_TaggingFailureAbsorbed ==
    outcome = "exception" =>
        pc \notin {"tag_create_tables", "tag_drop_temp", "tag_finish"}

\* C8: in a batch, the failure of one item is logged as a warning, cancels
\* or prevents no sibling, and does not make the call raise: once the call
\* has returned, every item that fails was run and logged, and every other
\* item was run and succeeded.
C8_ItemFailureIsLocal ==
    /\ \A i \in DOMAIN items : items[i].st # "cancelled"
    /\ BatchReturned =>
        \A i \in DOMAIN items :
            /\ items[i].st = (IF items[i].bad THEN "FAILED" ELSE "SUCCESS")
            /\ items[i].logged = items[i].bad
    /\ outcome = "exception" => pc \notin ExecutorCalls

C8_Witness ==
    /\ pc = "fix_missing_geocodes"
    /\ Len(items) = 2
    /\ items[1].st = "FAILED" /\ items[1].logged
    /\ items[2].st = "SUCCESS"

\* C9: an executor call returns only after every item of its batch has
\* completed, so the controller is at no other statement while an item of a
\* batch is queued or running; the missing-geocode fix never runs while a
\* COPY of the load batch is in progress.
C9_BatchJoinBarrier ==
    /\ Unfinished(items) # {} => pc \in ExecutorCalls
    /\ "fix_missing_geocodes" \in started =>
        (batchOf = "populate_raw_gnaf" => Unfinished(items) = {})

C9_Witness ==
    /\ "fix_missing_geocodes" \in started
    /\ batchOf = "populate_raw_gnaf"
    /\ Len(items) >= 2
    /\ \A i \in DOMAIN items : items[i].src = "COPY"

\* C10: append imports run one at a time, and none starts before the
\* parallel batch of create imports has completed in full.
AppendsBegun == {i \in DOMAIN appends : appends[i] # "pending"}

C10_AppendsSequential ==
    /\ Cardinality({i \in DOMAIN appends : appends[i] = "running"}) <= 1
    /\ AppendsBegun # {} =>
        /\ batchOf = "load_raw_admin_boundaries"
        /\ Unfinished(items) = {}
        /\ pc = "append_loop"

C10_Witness ==
    /\ Len(appends) >= 2
    /\ AppendDone(1)
    /\ appends[2] = "running"
    /\ Len(items) >= 2

\* The steps of the six parts of main, the statement each part is entered
\* at, and the step each part ends with
Part1Steps == {"create_schemas"}

Part2Steps ==
    {"drop_tables", "vacuum", "create_raw_gnaf_tables", "populate_raw_gnaf",
     "fix_missing_geocodes"} \cup Part2AfterPopulate

Part3Steps == {"load_raw_admin_boundaries"} \cup Part3AfterLoad

PartSteps ==
    <<Part1Steps, Part2Steps, Part3Steps, Part4Steps, Part5Steps, Part6Steps>>

PartEntry ==
    <<"create_schemas", "drop_tables_and_vacuum_db",
      "load_raw_admin_boundaries", "create_reference_tables", "part_5",
      "create_qa_tables">>

PartLast ==
    <<"create_schemas", "reset_search_path", "create_admin_bdys_for_analysis",
      "ref_14", "tag_finish", "create_qa_tables_bdys">>

PartOfStep(s) ==
    IF s = "connect" THEN 0 ELSE CHOOSE k \in DOMAIN PartSteps : s \in PartSteps[k]

\* part k has run to its end and the controller has left it; the optional
\* Part 5 also ends by logging that the addresses are not tagged
PartFinished(k) ==
    /\ \/ PartLast[k] \in started
       \/ k = 5 /\ WARN_NOT_TAGGED \in log
    /\ pc \notin ExecutorCalls \cup {"clean_loop", "append_loop"}
    /\ Unfinished(items) = {}

\* C11: the six parts run as a strict linear chain (Schemas, RawGNAFLoad,
\* RawBoundaryLoad, ReferenceTables, the optional BoundaryTagging, QA): a
\* part is entered only at its first statement, with none of its steps nor
\* of any later part started and the preceding part finished; and no step
\* of a part starts once a step of a later part has started.
C11_PartsInOrder ==
    [][ /\ \A k \in DOMAIN PartEntry :
            pc = PartEntry[k] =>
                /\ \A j \in k..Len(PartSteps) : started \cap PartSteps[j] = {}
                /\ k > 1 => PartFinished(k - 1)
        /\ \A s \in started' \ started :
            /\ \A t \in started : PartOfStep(t) <= PartOfStep(s)
            /\ PartOfStep(s) >= 1 /\ started \cap PartSteps[PartOfStep(s)] = {}
                    => pc = PartEntry[PartOfStep(s)]
      ]_vars

C11_Witness ==
    /\ pc = "close"
    /\ \A k \in DOMAIN PartSteps : PartLast[k] \in started

\* C17: when the PostGIS extension cannot be created, main logs a fatal
\* message and returns False before any of Parts 1 to 6 starts: no schema is
\* created, no table dropped, no batch submitted, and the run ends as a
\* failure.
C17_NoPostgisNoParts ==
    FATAL_POSTGIS \in log =>
        /\ started = {"connect"}
        /\ batchOf = "none" /\ items = <<>> /\ appends = <<>>
        /\ pc = "main_returned_false"
        /\ outcome \in {"running", "failure"}

C17_Witness ==
    /\ FATAL_POSTGIS \in log
    /\ outcome = "failure"
    /\ FATAL_BAD \in log

\* the controller has gone past Part 5 of main
PastPart5 ==
    \/ pc \in {"create_qa_tables", "create_qa_tables_bdys", "close",
               "main_returned_true"}
    \/ started \cap Part6Steps # {}

\* C18: with no_boundary_tag set, Part 5 does no tagging work and logs a
\* warning, Part 6 still runs afterwards, and a run whose QA statements all
\* succeed ends in success; with tagging enabled, it starts only after Part 4
\* has finished and QA starts only after the tagging has finished.
C18_TaggingOptional ==
    /\ args.no_boundary_tag =>
        /\ started \cap Part5Steps = {}
        /\ batchOf \notin Part5Steps
        /\ PastPart5 <=> WARN_NOT_TAGGED \in log
        /\ WARN_NOT_TAGGED \in log /\ outcome \notin {"running", "exception"} =>
                outcome = "success" /\ Part6Steps \subseteq started
    /\ ~args.no_boundary_tag =>
        /\ WARN_NOT_TAGGED \notin log
        /\ started \cap Part5Steps # {} =>
                "ref_14" \in started /\ batchOf \notin Part4Steps \ {"ref_14"}
        /\ pc \in {"part_5", "tag_create_tables"} =>
                batchOf = "ref_14" /\ Unfinished(items) = {}
        /\ PastPart5 => "tag_finish" \in started /\ Unfinished(items) = {}

C18_Witness ==
    /\ args.no_boundary_tag
    /\ WARN_NOT_TAGGED \in log
    /\ Part6Steps \subseteq started
    /\ outcome = "success"

----------------------------------------------------------------------------
(* Single functions, each on the tables and files it works on.  The        *)
(* specifications below run one function of load-gnaf.py from every input  *)
(* of a bounded set: db holds the tables (or the directory tree) the       *)
(* function reads and writes, locals its local variables, pc its           *)
(* statement; the controller's other variables stay as Idle leaves them.   *)

Idle ==
    /\ ret = "none"
    /\ outcome = "running"
    /\ exitStatus = -1
    /\ log = {}
    /\ started = {}
    /\ args = [vacuum_db |-> FALSE, primary_foreign_keys |-> FALSE,
               no_boundary_tag |-> FALSE, st_subdivide_supported |-> FALSE]
    /\ split_none = {}
    /\ items = <<>>
    /\ batchOf = "none"
    /\ appends = <<>>
    /\ schema_name = "none"
    /\ create_indexes = FALSE
    /\ tables = 0
    /\ error_count = 0

idleVars == <<ret, outcome, exitStatus, started, args, split_none, items,
              batchOf, appends, schema_name, create_indexes, tables,
              error_count>>

Min(S) == CHOOSE x \in S : \A y \in S : x <= y
Max(S) == CHOOSE x \in S : \A y \in S : x >= y
Range(f) == {f[i] : i \in DOMAIN f}

----------------------------------------------------------------------------
(* Partitioned statements: Steps 7 and 13 of create_reference_tables *)

\* the largest gid of the table a statement reads
MaxGid == 3

Postcodes == {"2000", "5000"}

\* settings.states_to_load as configured: the states whose files were loaded
ConfiguredStates == { <<"NSW">>, <<"SA">>, <<"NSW", "SA">>, <<"SA", "NSW">> }

\* the tables a statement may read: rows keyed by gid, each of a loaded state
TablesOf(states) ==
    UNION { [g -> [state : states, postcode : Postcodes]] :
                g \in SUBSET (1..MaxGid) }

Unpartitioned == [column |-> "none"]

\* the rows of table t that the predicate added to a variant lets through
Selected(t, w) ==
    {g \in DOMAIN t :
        CASE w.column = "gid"   -> g > w.gt /\ g <= w.le
          [] w.column = "state" -> t[g].state = w.eq
          [] OTHER              -> TRUE}

\* INSERT ... SELECT of the rows let through, one row out per row in
RowWise(t, w) ==
    SetToBag({[gid |-> g, state |-> t[g].state, postcode |-> t[g].postcode] :
                g \in Selected(t, w)})

\* INSERT ... SELECT ... GROUP BY postcode, state of the rows let through
Grouped(t, w) ==
    SetToBag({[postcode |-> t[g].postcode, state |-> t[g].state,
               address_count |-> Cardinality({h \in Selected(t, w) :
                    /\ t[h].postcode = t[g].postcode
                    /\ t[h].state = t[g].state})] :
                g \in Selected(t, w)})

RunStatement(kind, t, w) ==
    IF kind = "grouped" THEN Grouped(t, w) ELSE RowWise(t, w)

\* split_sql_into_list on the key: n ranges (gt, le] of equal width over the
\* gids from the least to the greatest, the last one ending at the greatest
SplitByKey(t, n) ==
    LET lo == Min(DOMAIN t)
        hi == Max(DOMAIN t)
        width == (hi - lo + n) \div n
    IN  [k \in 1..n |->
            [column |-> "gid", gt |-> lo - 1 + (k - 1) * width,
             le |-> IF k = n THEN hi ELSE lo - 1 + k * width]]

\* what split_sql_into_list may return for table t: None for a table too
\* small to split, or the ranges
SplitSqlIntoListByKey(t) ==
    {[none |-> TRUE, list |-> <<>>]} \cup
    (IF DOMAIN t = {} THEN {}
     ELSE {[none |-> FALSE, list |-> SplitByKey(t, n)] : n \in 1..MaxParts})

\* Faulty variant of StateSql: the template holds no "GROUP BY " for replace to find
StateSqlUnfiltered(state) == Unpartitioned

\* sql.replace("GROUP BY ", "WHERE state = '{0}' GROUP BY ".format(state))
StateSql(state) == [column |-> "state", eq |-> state]

InitPartition ==
    /\ Idle
    /\ pc \in {"ref_7", "ref_13"}
    /\ \E cfg \in ConfiguredStates :
        /\ states_to_load = cfg \o <<"authority_code">>
        /\ \E t \in TablesOf(Range(cfg)) : db = [table |-> t, out |-> EmptyBag]
    /\ sql_list = <<>>
    /\ locals = [kind |-> IF pc = "ref_7" THEN "rowwise" ELSE "grouped",
                 done |-> {}]

\* Step 7: the statement is split on the gid of the table it reads; a None
\* result sends nothing to the executor
PartitionStep7 ==
    /\ pc = "ref_7"
    /\ \E r \in SplitSqlIntoListByKey(db.table) :
        /\ sql_list' = r.list
        /\ pc' = IF r.none THEN "ref_7_analyze" ELSE "multiprocess_list"
    /\ UNCHANGED <<idleVars, log, states_to_load, db, locals>>

\* Step 13: one statement per entry of settings.states_to_load
PartitionStep13 ==
    /\ pc = "ref_13"
    /\ sql_list' = [i \in DOMAIN states_to_load |-> StateSql(states_to_load[i])]
    /\ pc' = "multiprocess_list"
    /\ UNCHANGED <<idleVars, log, states_to_load, db, locals>>

\* a worker runs one statement of the batch, in any order
PartitionRun ==
    /\ pc = "multiprocess_list"
    /\ \E i \in DOMAIN sql_list \ locals.done :
        /\ db' = [db EXCEPT !.out =
                    @ (+) RunStatement(locals.kind, db.table, sql_list[i])]
        /\ locals' = [locals EXCEPT !.done = @ \cup {i}]
    /\ UNCHANGED <<idleVars, pc, log, states_to_load, sql_list>>

\* multiprocess_list returns when every statement has run
PartitionJoin ==
    /\ pc = "multiprocess_list"
    /\ locals.done = DOMAIN sql_list
    /\ pc' = "returned"
    /\ UNCHANGED <<idleVars, log, states_to_load, sql_list, db, locals>>

NextPartition ==
    PartitionStep7 \/ PartitionStep13 \/ PartitionRun \/ PartitionJoin

SpecPartition == InitPartition /\ [][NextPartition]_vars

C12_WitnessByKey ==
    /\ pc = "returned"
    /\ locals.kind = "rowwise"
    /\ Cardinality({i \in DOMAIN sql_list :
                        Selected(db.table, sql_list[i]) # {}}) >= 2

----------------------------------------------------------------------------
(* Step 2 of 7 of boundary_tag_gnaf: one work item per temporary tag table *)

\* the rows a temporary tag table may hold, as <<gnaf_state, bdy_state>>
TagRows == { <<"NSW", "NSW">>, <<"NSW", "SA">>, <<"OT", "SA">> }

\* Faulty variant of TagDeleteSql: the index name does not carry the table name
TagDeleteSqlOneIndexName(table) ==
    [delete_from |-> "temp_" \o table \o "_tags",
     index_name  |-> "temp_tags_gnaf_pid_idx",
     index_on    |-> "temp_" \o table \o "_tags",
     analyze     |-> "temp_" \o table \o "_tags"]

\* "DELETE FROM {0}.temp_{1}_tags WHERE ...; CREATE INDEX
\* temp_{1}_tags_gnaf_pid_idx ON {0}.temp_{1}_tags ...; ANALYZE
\* {0}.temp_{1}_tags".format(settings.gnaf_schema, table[0])
TagDeleteSql(table) ==
    [delete_from |-> "temp_" \o table \o "_tags",
     index_name  |-> "temp_" \o table \o "_tags_gnaf_pid_idx",
     index_on    |-> "temp_" \o table \o "_tags",
     analyze     |-> "temp_" \o table \o "_tags"]

\* One work item run by the database, its statements as one implicit
\* transaction: an index name already taken in the schema fails the CREATE
\* INDEX, and the item leaves nothing behind
RunTagDelete(d, sql) ==
    IF sql.index_name \in DOMAIN d.indexes
    THEN d
    ELSE [rows |-> [d.rows EXCEPT ![sql.delete_from] =
                      {r \in @ : ~(r[1] # r[2] /\ r[1] # "OT")}],
          indexes |-> [n \in DOMAIN d.indexes \cup {sql.index_name} |->
                        IF n = sql.index_name THEN sql.index_on
                        ELSE d.indexes[n]],
          analysed |-> d.analysed \cup {sql.analyze}]

\* the items of a list run one after the other, in the order of the list
RECURSIVE RunInListOrder(_, _)
RunInListOrder(d, list) ==
    IF list = <<>> THEN d
    ELSE RunInListOrder(RunTagDelete(d, Head(list)), Tail(list))

InitTagDelete ==
    /\ Idle
    /\ pc = "tag_delete"
    /\ states_to_load = <<"NSW", "authority_code">>
    /\ sql_list = <<>>
    /\ \E rows \in [{"temp_" \o TagTables[i] \o "_tags" : i \in DOMAIN TagTables}
                        -> SUBSET TagRows] :
        db = [rows |-> rows, indexes |-> <<>>, analysed |-> {}]
    /\ locals = [done |-> {}, before |-> db]

\* the loop over table_list, and the batch handed to multiprocess_list
TagDeleteSubmit ==
    /\ pc = "tag_delete"
    /\ sql_list' = [i \in DOMAIN TagTables |-> TagDeleteSql(TagTables[i])]
    /\ pc' = "multiprocess_list"
    /\ UNCHANGED <<idleVars, log, states_to_load, db, locals>>

\* a worker runs one item of the batch, in any order
TagDeleteRun ==
    /\ pc = "multiprocess_list"
    /\ \E i \in DOMAIN sql_list \ locals.done :
        /\ db' = RunTagDelete(db, sql_list[i])
        /\ locals' = [locals EXCEPT !.done = @ \cup {i}]
    /\ UNCHANGED <<idleVars, pc, log, states_to_load, sql_list>>

TagDeleteJoin ==
    /\ pc = "multiprocess_list"
    /\ locals.done = DOMAIN sql_list
    /\ pc' = "tag_insert"
    /\ UNCHANGED <<idleVars, log, states_to_load, sql_list, db, locals>>

NextTagDelete == TagDeleteSubmit \/ TagDeleteRun \/ TagDeleteJoin

SpecTagDelete == InitTagDelete /\ [][NextTagDelete]_vars

----------------------------------------------------------------------------
(* clean_authority_files on one authority table *)

\* the most copies of one row a table holds
MaxDup == 2

\* the value of a column that is NULL
NULL == "NULL"

\* the rows tried, as <<code, name, description>>
AutRows == { <<1, "A", NULL>>, <<1, "A", "d">>, <<1, "A", "e">>, <<2, "B", "d">> }

AutTableNames == {"aus_mb_category_class_aut", "aus_locality_class_aut"}

\* the tables tried: every bag of AutRows with up to MaxDup copies of a row
AutTables == UNION { [S -> 1..MaxDup] : S \in SUBSET AutRows }

RECURSIVE CopiesOf(_, _)
CopiesOf(S, t) ==
    IF S = {} THEN 0
    ELSE LET r == CHOOSE x \in S : TRUE
         IN  t[r] + CopiesOf(S \ {r}, t)

\* UPDATE ... SET description = NULL, for aus_mb_category_class_aut only
FixDescriptions(table_name, t) ==
    IF table_name = "aus_mb_category_class_aut"
    THEN [x \in {<<r[1], r[2], NULL>> : r \in DOMAIN t} |->
            CopiesOf({r \in DOMAIN t : <<r[1], r[2], NULL>> = x}, t)]
    ELSE t

\* Faulty variant of DistinctRows: the description is left out of the SELECT DISTINCT
DistinctRowsCodeName(t) == {<<r[1], r[2], NULL>> : r \in DOMAIN t}

\* CREATE TABLE temp_aut AS SELECT DISTINCT code, name, description
DistinctRows(t) == BagToSet(t)

\* Faulty variant of DuplicatesFound: the table is replaced when no row is a duplicate too
DuplicatesFoundOrNot(old_row_count, new_row_count) ==
    old_row_count - new_row_count >= 0

\* duplicate_row_count = old_row_count - new_row_count; if ... > 0
DuplicatesFound(old_row_count, new_row_count) ==
    old_row_count - new_row_count > 0

InitClean ==
    /\ Idle
    /\ pc = "clean_loop"
    /\ states_to_load = <<"NSW", "authority_code">>
    /\ sql_list = <<>>
    /\ \E n \in AutTableNames, t \in AutTables :
        db = [table_name |-> n, rows |-> t, temp_aut |-> {}]
    /\ locals = [runs |-> 0, original |-> db.rows, before |-> db.rows,
                 old_row_count |-> 0, new_row_count |-> 0,
                 truncated |-> FALSE, removed |-> <<>>]

\* The body of the loop over the tables, for one table: the descriptions
\* fix, the two counts, temp_aut, and TRUNCATE and INSERT of the distinct
\* rows with the number removed logged, when there were duplicates.  It runs
\* on the table as loaded, and once more on what the first run left.
CleanAuthorityTable ==
    /\ pc = "clean_loop"
    /\ locals.runs < 2
    /\ LET t == FixDescriptions(db.table_name, db.rows)
           old_row_count == BagCardinality(t)
           temp_aut == DistinctRows(t)
           new_row_count == Cardinality(temp_aut)
           found == DuplicatesFound(old_row_count, new_row_count)
       IN  /\ db' = [db EXCEPT !.rows = IF found THEN SetToBag(temp_aut) ELSE t,
                               !.temp_aut = {}]
           /\ locals' = [locals EXCEPT
                    !.runs = @ + 1,
                    !.before = db.rows,
                    !.old_row_count = old_row_count,
                    !.new_row_count = new_row_count,
                    !.truncated = found,
                    !.removed = IF found
                                THEN <<old_row_count - new_row_count>>
                                ELSE <<>>]
    /\ UNCHANGED <<idleVars, pc, log, states_to_load, sql_list>>

\* the loop over the tables ends
CleanAuthorityReturn ==
    /\ pc = "clean_loop"
    /\ locals.runs = 2
    /\ pc' = "returned"
    /\ UNCHANGED <<idleVars, log, states_to_load, sql_list, db, locals>>

NextClean == CleanAuthorityTable \/ CleanAuthorityReturn

SpecClean == InitClean /\ [][NextClean]_vars

\* C14 as stated: after the cleaner has processed a table, the table holds
\* exactly the distinct (code, name, description) triples it held before
\* the call, each once; a second run removes no row.
C14_DistinctTriplesKept ==
    /\ locals.runs >= 1 => db.rows = SetToBag(BagToSet(locals.original))
    /\ locals.runs = 2 => locals.removed = <<>> /\ db.rows = locals.before

\* C14: after the cleaner has processed a table, the table holds exactly
\* the distinct (code, name, description) triples it held before the call,
\* each once -- for aus_mb_category_class_aut, those triples with the
\* description set to NULL, as the cleaner sets it first; a second run
\* removes no row and leaves the table as it is.
C14_DistinctTriplesAfterFix ==
    /\ locals.runs >= 1 =>
        /\ db.rows = SetToBag(BagToSet(
                        FixDescriptions(db.table_name, locals.original)))
        /\ BagCardinality(db.rows) = Cardinality(BagToSet(
                        FixDescriptions(db.table_name, locals.original)))
    /\ locals.runs = 2 =>
        /\ locals.removed = <<>> /\ ~locals.truncated
        /\ db.rows = locals.before

C14_Witness ==
    /\ locals.runs = 2
    /\ db.table_name # "aus_mb_category_class_aut"
    /\ BagCardinality(locals.original) >= Cardinality(BagToSet(locals.original)) + 2
    /\ Cardinality(BagToSet(db.rows)) >= 2

\* C15 as stated: the table is truncated and reloaded only when it holds
\* fewer distinct rows than rows; a table without duplicate rows is left
\* unchanged with nothing logged as removed, and for one with duplicates the
\* number logged is the row count less the distinct count.
C15_DedupFrame ==
    locals.runs >= 1 =>
        LET old == BagCardinality(locals.before)
            new == Cardinality(BagToSet(locals.before))
        IN  /\ locals.truncated <=> new < old
            /\ new = old => db.rows = locals.before /\ locals.removed = <<>>
            /\ new < old => locals.removed = <<old - new>>

\* C15: the table is truncated and reloaded only when, the descriptions of
\* aus_mb_category_class_aut set to NULL, it holds fewer distinct rows than
\* rows; without duplicates then, its rows are left as they are and nothing
\* is logged as removed; with duplicates, the number logged is the row
\* count less the distinct count.
C15_DedupFrameAfterFix ==
    locals.runs >= 1 =>
        LET t == FixDescriptions(db.table_name, locals.before)
            old == BagCardinality(t)
            new == Cardinality(BagToSet(t))
        IN  /\ old = locals.old_row_count /\ new = locals.new_row_count
            /\ locals.truncated <=> new < old
            /\ new = old => db.rows = t /\ locals.removed = <<>>
            /\ new < old => locals.removed = <<old - new>>
            /\ db.table_name # "aus_mb_category_class_aut" /\ new = old
                    => db.rows = locals.before

C15_Witness ==
    /\ locals.runs = 1
    /\ locals.truncated
    /\ locals.removed = <<2>>
    /\ BagCardinality(db.rows) = 2

----------------------------------------------------------------------------
(* Strings, as Python's str methods work on them *)

UpperCase == "ABCDEFGHIJKLMNOPQRSTUVWXYZ"
LowerCase == "abcdefghijklmnopqrstuvwxyz"

\* str.lower()
RECURSIVE Lower(_)
Lower(s) ==
    IF s = "" THEN ""
    ELSE LET c == Head(s)
             at == {i \in 1..Len(UpperCase) : SubSeq(UpperCase, i, i) = c}
         IN  (IF at = {} THEN c
              ELSE LET i == CHOOSE i \in at : TRUE IN SubSeq(LowerCase, i, i))
             \o Lower(Tail(s))

\* str.startswith(prefix), str.endswith(suffix), sub in str
StartsWith(s, prefix) ==
    Len(s) >= Len(prefix) /\ SubSeq(s, 1, Len(prefix)) = prefix

EndsWith(s, suffix) ==
    Len(s) >= Len(suffix) /\ SubSeq(s, Len(s) - Len(suffix) + 1, Len(s)) = suffix

Contains(s, sub) ==
    \E i \in 1..(Len(s) - Len(sub) + 1) : SubSeq(s, i, i + Len(sub) - 1) = sub

\* str.replace(old, new): every occurrence, from the left
RECURSIVE Replace(_, _, _)
Replace(s, old, new) ==
    IF Len(s) < Len(old) THEN s
    ELSE IF StartsWith(s, old)
         THEN new \o Replace(SubSeq(s, Len(old) + 1, Len(s)), old, new)
         ELSE Head(s) \o Replace(Tail(s), old, new)

\* str.replace(old, new, 1): the first occurrence only
RECURSIVE ReplaceFirst(_, _, _)
ReplaceFirst(s, old, new) ==
    IF Len(s) < Len(old) THEN s
    ELSE IF StartsWith(s, old)
         THEN new \o SubSeq(s, Len(old) + 1, Len(s))
         ELSE Head(s) \o ReplaceFirst(Tail(s), old, new)

----------------------------------------------------------------------------
(* load_raw_admin_boundaries: the files found, create_list and append_list *)

\* the most files under settings.admin_bdys_local_directory
MaxFiles == 3

\* the files tried, each with the directory os.walk finds it in
BdyFiles ==
    { [root |-> "bdys/Standard",    file_name |-> "NSW_LOCALITY_POLYGON_shp.shp"],
      [root |-> "bdys/Standard",    file_name |-> "NSW_LOCALITY_POLYGON_shp.dbf"],
      [root |-> "bdys/Standard",    file_name |-> "NSW_LOCALITY_shp.dbf"],
      [root |-> "bdys/Standard",    file_name |-> "SA_LOCALITY_POLYGON_shp.shp"],
      [root |-> "bdys/Standard",    file_name |-> "Authority_Code_LOCALITY_CLASS_AUT_shp.dbf"],
      [root |-> "bdys/Standard",    file_name |-> "NSW_readme.txt"],
      [root |-> "bdys/Town Points", file_name |-> "NSW_LOCALITY_shp.dbf"],
      [root |-> "bdys/Town Points", file_name |-> "NSW_TOWN_POINT_shp.shp"] }

\* what os.walk may yield: distinct files, those of one directory together
Walks ==
    {w \in UNION {[1..n -> BdyFiles] : n \in 0..MaxFiles} :
        /\ \A i, j \in DOMAIN w : i # j => w[i] # w[j]
        /\ \A i, j, k \in DOMAIN w :
            i < j /\ j < k /\ w[i].root = w[k].root => w[j].root = w[i].root}

\* file_name.lower().replace(state + "_", "aus_", 1).replace(".dbf", "")
\*     .replace(".shp", "").replace("_shp", "")
PgTable(file_name, state) ==
    Replace(Replace(Replace(
        ReplaceFirst(Lower(file_name), state \o "_", "aus_"),
        ".dbf", ""), ".shp", ""), "_shp", "")

\* Faulty variant of TableListAppend: the table name is not kept in table_list
TableListUnchanged(table_list, pg_table) == table_list

\* table_list.append(file_dict["pg_table"])
TableListAppend(table_list, pg_table) == Append(table_list, pg_table)

\* Faulty variant of AddBdyFile: every entry is told to delete its table first
AddBdyFileAlwaysDelete(acc, state, f) ==
    LET name == Lower(f.file_name)
        file_path == f.root \o "/" \o f.file_name
        listed == \/ EndsWith(name, ".shp")
                  \/ /\ EndsWith(name, ".dbf")
                     /\ ~EndsWith(name, "_polygon_shp.dbf")
                     /\ ~EndsWith(name, "_point_shp.dbf")
        pg_table == PgTable(f.file_name, state)
        table_list_add == ~InList(pg_table, acc.table_list)
        file_dict == [spatial |-> EndsWith(name, ".shp"),
                      file_path |-> file_path,
                      pg_table |-> pg_table,
                      pg_schema |-> "raw_admin_bdys",
                      delete_table |-> TRUE]
    IN  IF ~StartsWith(name, state \o "_") THEN acc
        ELSE IF ~(EndsWith(name, ".shp") \/ EndsWith(name, "_shp.dbf")) THEN acc
        ELSE IF ~listed THEN acc
        ELSE IF /\ Contains(Lower(file_path), "town points")
                /\ EndsWith(Lower(file_path), "_locality_shp.dbf")
             THEN acc
        ELSE IF table_list_add
             THEN [acc EXCEPT
                    !.table_list = TableListAppend(@, pg_table),
                    !.create_list = Append(@, file_dict)]
             ELSE [acc EXCEPT !.append_list = Append(@, file_dict)]

\* Faulty variant of AddBdyFile: the locality file of the Town Points folder keeps its table name
AddBdyFileTownReserves(acc, state, f) ==
    LET name == Lower(f.file_name)
        file_path == f.root \o "/" \o f.file_name
        listed == \/ EndsWith(name, ".shp")
                  \/ /\ EndsWith(name, ".dbf")
                     /\ ~EndsWith(name, "_polygon_shp.dbf")
                     /\ ~EndsWith(name, "_point_shp.dbf")
        pg_table == PgTable(f.file_name, state)
        table_list_add == ~InList(pg_table, acc.table_list)
        file_dict == [spatial |-> EndsWith(name, ".shp"),
                      file_path |-> file_path,
                      pg_table |-> pg_table,
                      pg_schema |-> "raw_admin_bdys",
                      delete_table |-> table_list_add]
    IN  IF ~StartsWith(name, state \o "_") THEN acc
        ELSE IF ~(EndsWith(name, ".shp") \/ EndsWith(name, "_shp.dbf")) THEN acc
        ELSE IF ~listed THEN acc
        ELSE IF /\ Contains(Lower(file_path), "town points")
                /\ EndsWith(Lower(file_path), "_locality_shp.dbf")
             THEN IF table_list_add
                  THEN [acc EXCEPT !.table_list = TableListAppend(@, pg_table)]
                  ELSE acc
        ELSE IF table_list_add
             THEN [acc EXCEPT
                    !.table_list = TableListAppend(@, pg_table),
                    !.create_list = Append(@, file_dict)]
             ELSE [acc EXCEPT !.append_list = Append(@, file_dict)]

\* The body of the loops for one file and one (lower-cased) state: acc holds
\* table_list, create_list and append_list
AddBdyFile(acc, state, f) ==
    LET name == Lower(f.file_name)
        file_path == f.root \o "/" \o f.file_name
        listed == \/ EndsWith(name, ".shp")
                  \/ /\ EndsWith(name, ".dbf")
                     /\ ~EndsWith(name, "_polygon_shp.dbf")
                     /\ ~EndsWith(name, "_point_shp.dbf")
        pg_table == PgTable(f.file_name, state)
        table_list_add == ~InList(pg_table, acc.table_list)
        file_dict == [spatial |-> EndsWith(name, ".shp"),
                      file_path |-> file_path,
                      pg_table |-> pg_table,
                      pg_schema |-> "raw_admin_bdys",
                      delete_table |-> table_list_add]
    IN  IF ~StartsWith(name, state \o "_") THEN acc
        ELSE IF ~(EndsWith(name, ".shp") \/ EndsWith(name, "_shp.dbf")) THEN acc
        ELSE IF ~listed THEN acc
        ELSE IF /\ Contains(Lower(file_path), "town points")
                /\ EndsWith(Lower(file_path), "_locality_shp.dbf")
             THEN acc
        ELSE IF table_list_add
             THEN [acc EXCEPT
                    !.table_list = TableListAppend(@, pg_table),
                    !.create_list = Append(@, file_dict)]
             ELSE [acc EXCEPT !.append_list = Append(@, file_dict)]

\* for root, dirs, files in os.walk(...): for file_name in files
RECURSIVE WalkFiles(_, _, _)
WalkFiles(acc, state, walk) ==
    IF walk = <<>> THEN acc
    ELSE WalkFiles(AddBdyFile(acc, state, Head(walk)), state, Tail(walk))

\* for state in settings.states_to_load: state = state.lower()
RECURSIVE ForStates(_, _, _)
ForStates(acc, states, walk) ==
    IF states = <<>> THEN acc
    ELSE ForStates(WalkFiles(acc, Lower(Head(states)), walk), Tail(states), walk)

InitBdyFiles ==
    /\ Idle
    /\ pc = "load_raw_admin_boundaries"
    /\ states_to_load \in ConfiguredStates
    /\ sql_list = <<>>
    /\ \E w \in Walks : db = [walk |-> w]
    /\ locals = [table_list |-> <<>>, create_list |-> <<>>, append_list |-> <<>>]

\* load_raw_admin_boundaries up to the test of len(create_list)
FindBdyFiles ==
    /\ pc = "load_raw_admin_boundaries"
    /\ states_to_load' = states_to_load \o <<"authority_code">>
    /\ locals' = ForStates(locals, states_to_load', db.walk)
    /\ pc' = IF Len(locals'.create_list) = 0 THEN "clean_bdys"
             ELSE "multiprocess_shapefile_load"
    /\ log' = IF Len(locals'.create_list) = 0 THEN log \cup {FATAL_NO_BDYS}
              ELSE log
    /\ UNCHANGED <<idleVars, sql_list, db>>

NextBdyFiles == FindBdyFiles

SpecBdyFiles == InitBdyFiles /\ [][NextBdyFiles]_vars

\* C16: whatever the files and the states, create_list never holds two
\* entries of the same pg_table.
C16_CreateListDistinct ==
    \A i, j \in DOMAIN locals.create_list :
        i # j => locals.create_list[i].pg_table # locals.create_list[j].pg_table

C16_Witness ==
    /\ pc = "multiprocess_shapefile_load"
    /\ Len(locals.create_list) >= 2
    /\ \E i \in DOMAIN locals.append_list :
        locals.append_list[i].pg_table = locals.create_list[1].pg_table

----------------------------------------------------------------------------
(* create_qa_tables: the row counts of two schemas and their comparison    *)
(* with the previous release                                               *)

\* the most rows a table holds, and the greatest count a previous qa holds
MaxCount == 1

WARN_NO_COUNT == "WARNING: Couldn't get row count"

\* an integer column: <<>> when it is NULL, <<n>> when it holds n
NullInt == <<>>
Counted(n) == <<n>>

\* the names tried for settings.gnaf_schema and settings.admin_bdys_schema
GnafSchemaNames == {"gnaf_202405", "gnaf"}
AdminBdysSchemaNames == {"admin_bdys_202405", "gnaf_bdys"}

\* the tables a schema may hold: with or without a state column, of some
\* number of rows, or such that no count of it can be had
TableKinds ==
    [state_column : BOOLEAN, rows : 0..MaxCount, countable : {TRUE}]
        \cup {[state_column |-> FALSE, rows |-> 0, countable |-> FALSE]}

SchemaTables(names) == UNION { [S -> TableKinds] : S \in SUBSET names }

\* a previous schema: missing, there without a qa table, or with one
PreviousSchemas(names) ==
    { [exists |-> FALSE, has_qa |-> FALSE, qa |-> <<>>],
      [exists |-> TRUE, has_qa |-> FALSE, qa |-> <<>>] } \cup
    { [exists |-> TRUE, has_qa |-> TRUE, qa |-> q] :
        q \in UNION { [S -> {NullInt} \cup {Counted(n) : n \in 0..MaxCount}] :
                        S \in SUBSET names } }

\* Faulty variant of QaRow: a failed count by state is not followed by Count(*)
QaRowNoFallback(t) ==
    IF ~t.countable \/ ~t.state_column THEN <<>>
    ELSE <<IF t.rows = 0 THEN NullInt ELSE Counted(t.rows)>>

\* The row of qa for one table: the sums by state (NULL over no rows at
\* all), else Count(*), else no row and a warning
QaRow(t) ==
    IF ~t.countable THEN <<>>
    ELSE IF t.state_column
         THEN <<IF t.rows = 0 THEN NullInt ELSE Counted(t.rows)>>
         ELSE <<Counted(t.rows)>>

\* the qa table of a schema holding these tables
QaOf(schema_tables) ==
    [n \in {m \in DOMAIN schema_tables : QaRow(schema_tables[m]) # <<>>} |->
        QaRow(schema_tables[n])[1]]

\* Faulty variant of Difference: the counts are subtracted the other way round
DifferenceOldLessNew(new, old) ==
    IF new = NullInt \/ old = NullInt THEN NullInt ELSE Counted(old[1] - new[1])

\* new.aus - old.aus
Difference(new, old) ==
    IF new = NullInt \/ old = NullInt THEN NullInt ELSE Counted(new[1] - old[1])

\* SELECT new.table_name, new.aus - old.aus, new.aus, old.aus FROM
\* {0}.qa as new INNER JOIN {1}.qa as old ON new.table_name = old.table_name
QaComparison(new, old) ==
    SetToBag({[table_name |-> n, difference |-> Difference(new[n], old[n]),
               new_count |-> new[n], old_count |-> old[n]] :
                n \in DOMAIN new \cap DOMAIN old})

\* if "gnaf_" in schema: ... else: ...
PreviousSchema(settings, schema) ==
    IF Contains(schema, "gnaf_") THEN settings.previous_gnaf_schema
    ELSE settings.previous_admin_bdys_schema

\* Faulty variant of PreviousSchemaExists: the previous schema is taken to be there
PreviousSchemaAssumed(d, previous_schema) == TRUE

\* SELECT schema_name FROM information_schema.schemata WHERE ...;
\* test_schema_row is not None
PreviousSchemaExists(d, previous_schema) == d.schemata[previous_schema].exists

\* for schema in [settings.gnaf_schema, settings.admin_bdys_schema]
QaSchemas(settings) == <<settings.gnaf_schema, settings.admin_bdys_schema>>

InitQa ==
    /\ Idle
    /\ pc = "create_qa_tables"
    /\ states_to_load = <<"NSW", "authority_code">>
    /\ sql_list = <<>>
    /\ \E g \in GnafSchemaNames, a \in AdminBdysSchemaNames,
          tg \in SchemaTables({"t1", "t2"}), ta \in SchemaTables({"t1"}),
          pg \in PreviousSchemas({"t1", "t2"}), pa \in PreviousSchemas({"t1"}) :
        db = [settings |-> [gnaf_schema |-> g, admin_bdys_schema |-> a,
                            previous_gnaf_schema |-> "gnaf_202402",
                            previous_admin_bdys_schema |-> "admin_bdys_202402"],
              tables |-> [x \in {g, a} |-> IF x = g THEN tg ELSE ta],
              schemata |-> [x \in {"gnaf_202402", "admin_bdys_202402"} |->
                                IF x = "gnaf_202402" THEN pg ELSE pa],
              qa |-> <<>>,
              qa_comparison |-> <<>>]
    /\ locals = [i |-> 0, warned |-> <<>>, raised |-> 0]

\* One pass of the loop over the two schemas: the qa table and its rows,
\* then the comparison when the previous schema is there (an INSERT that
\* finds no qa table in it raises, uncaught), else the warning
QaPass ==
    /\ pc \in {"create_qa_tables", "create_qa_tables_bdys"}
    /\ outcome = "running"
    /\ LET i == locals.i + 1
           schema == QaSchemas(db.settings)[i]
           qa == QaOf(db.tables[schema])
           previous_schema == PreviousSchema(db.settings, schema)
           with_qa == [x \in DOMAIN db.qa \cup {schema} |->
                            IF x = schema THEN qa ELSE db.qa[x]]
           uncounted == \E n \in DOMAIN db.tables[schema] :
                            ~db.tables[schema][n].countable
           counted_log == IF uncounted THEN log \cup {WARN_NO_COUNT} ELSE log
           Compared(rows) ==
                [x \in DOMAIN db.qa_comparison \cup {schema} |->
                    IF x = schema THEN rows ELSE db.qa_comparison[x]]
       IN  IF PreviousSchemaExists(db, previous_schema)
           THEN IF db.schemata[previous_schema].has_qa
                THEN /\ db' = [db EXCEPT !.qa = with_qa,
                                  !.qa_comparison = Compared(QaComparison(
                                        qa, db.schemata[previous_schema].qa))]
                     /\ locals' = [locals EXCEPT !.i = i]
                     /\ log' = counted_log
                     /\ pc' = IF i = 1 THEN "create_qa_tables_bdys" ELSE "close"
                     /\ UNCHANGED <<outcome, exitStatus>>
                ELSE /\ db' = [db EXCEPT !.qa = with_qa,
                                  !.qa_comparison = Compared(EmptyBag)]
                     /\ locals' = [locals EXCEPT !.i = i, !.raised = i]
                     /\ log' = counted_log
                     /\ outcome' = "exception"
                     /\ exitStatus' = 1
                     /\ UNCHANGED pc
           ELSE /\ db' = [db EXCEPT !.qa = with_qa]
                /\ locals' = [locals EXCEPT !.i = i,
                                            !.warned = Append(@, previous_schema)]
                /\ log' = counted_log \cup {WARN_NO_PREVIOUS}
                /\ pc' = IF i = 1 THEN "create_qa_tables_bdys" ELSE "close"
                /\ UNCHANGED <<outcome, exitStatus>>
    /\ UNCHANGED <<ret, started, args, split_none, items, batchOf, appends,
                   cleanVars, states_to_load, sql_list>>

\* create_qa_tables returns to main
QaReturn ==
    /\ pc = "close"
    /\ pc' = "main_returned_true"
    /\ UNCHANGED <<idleVars, log, states_to_load, sql_list, db, locals>>

NextQa == QaPass \/ QaReturn

SpecQa == InitQa /\ [][NextQa]_vars

\* C19: when the previous schema of a pass does not exist in the database,
\* the comparison is skipped with a warning and nothing raises: no
\* qa_comparison table is made for the schema of that pass, the loop goes on
\* with the next schema, and create_qa_tables returns as usual.
C19_MissingPreviousSkipped ==
    \A i \in 1..locals.i :
        LET schema == QaSchemas(db.settings)[i]
            previous_schema == PreviousSchema(db.settings, schema)
        IN  ~db.schemata[previous_schema].exists =>
                /\ schema \notin DOMAIN db.qa_comparison
                /\ InList(previous_schema, locals.warned)
                /\ WARN_NO_PREVIOUS \in log
                /\ locals.raised # i
                /\ i = 1 /\ locals.i = 1 =>
                        pc = "create_qa_tables_bdys" /\ outcome = "running"
                /\ i = 2 => pc \in {"close", "main_returned_true"}
                            /\ outcome = "running"

C19_Witness ==
    /\ pc = "main_returned_true"
    /\ Len(locals.warned) = 2
    /\ locals.warned[1] # locals.warned[2]
    /\ DOMAIN db.qa_comparison = {}
    /\ DOMAIN db.qa = {db.settings.gnaf_schema, db.settings.admin_bdys_schema}

\* C20: the comparison of a schema holds, for every table with a row in both
\* the new and the previous qa table, one row (table, new count less old
\* count, new count, old count), the difference being NULL when a count is
\* NULL, and no row for a table that only one of them has.
C20_ComparisonRows ==
    \A i \in 1..locals.i :
        LET schema == QaSchemas(db.settings)[i]
            previous_schema == PreviousSchema(db.settings, schema)
            new == db.qa[schema]
            old == db.schemata[previous_schema].qa
        IN  db.schemata[previous_schema].has_qa =>
                LET rows == db.qa_comparison[schema]
                IN  /\ \A r \in BagToSet(rows) :
                        /\ CopiesIn(r, rows) = 1
                        /\ r.table_name \in DOMAIN new \cap DOMAIN old
                        /\ r.new_count = new[r.table_name]
                        /\ r.old_count = old[r.table_name]
                        /\ r.new_count # NullInt /\ r.old_count # NullInt =>
                            r.difference = Counted(r.new_count[1] - r.old_count[1])
                        /\ r.new_count = NullInt \/ r.old_count = NullInt =>
                            r.difference = NullInt
                    /\ \A n \in DOMAIN new \cap DOMAIN old :
                        Cardinality({r \in BagToSet(rows) : r.table_name = n}) = 1

C20_Witness ==
    /\ locals.i >= 1
    /\ db.settings.gnaf_schema \in DOMAIN db.qa_comparison
    /\ \E r \in BagToSet(db.qa_comparison[db.settings.gnaf_schema]) :
        /\ r.table_name = "t1"
        /\ r.difference = Counted(1) /\ r.new_count = Counted(1) /\ r.old_count = Counted(0)
    /\ "t2" \in DOMAIN db.qa[db.settings.gnaf_schema]
    /\ \A r \in BagToSet(db.qa_comparison[db.settings.gnaf_schema]) :
        r.table_name # "t2"

\* C21: for each table of a QA schema, a failing count by state is caught
\* and Count(*) is tried instead; when that fails as well a warning is
\* logged; either way the loop goes on, so that every other table of the
\* schema still gets its row in qa and the pass does not end on it.
C21_CountFailureIsLocal ==
    \A i \in 1..locals.i :
        LET schema == QaSchemas(db.settings)[i]
            previous_schema == PreviousSchema(db.settings, schema)
        IN  /\ schema \in DOMAIN db.qa
            /\ \A n \in DOMAIN db.tables[schema] :
                LET t == db.tables[schema][n]
                IN  /\ t.countable /\ ~t.state_column =>
                        n \in DOMAIN db.qa[schema]
                        /\ db.qa[schema][n] = Counted(t.rows)
                    /\ t.countable /\ t.state_column =>
                        n \in DOMAIN db.qa[schema]
                        /\ db.qa[schema][n] =
                            IF t.rows = 0 THEN NullInt ELSE Counted(t.rows)
                    /\ ~t.countable =>
                        n \notin DOMAIN db.qa[schema] /\ WARN_NO_COUNT \in log
            /\ locals.raised = i =>
                /\ db.schemata[previous_schema].exists
                /\ ~db.schemata[previous_schema].has_qa

C21_Witness ==
    /\ pc = "main_returned_true"
    /\ WARN_NO_COUNT \in log
    /\ LET schema == db.settings.gnaf_schema
       IN  /\ DOMAIN db.tables[schema] = {"t1", "t2"}
           /\ ~db.tables[schema]["t1"].countable
           /\ ~db.tables[schema]["t2"].state_column
           /\ db.tables[schema]["t2"].countable
           /\ DOMAIN db.qa[schema] = {"t2"}
           /\ db.qa[schema]["t2"] = Counted(MaxCount)

\* the tables the batches of Steps 1 and 2 of boundary_tag_gnaf read
TagBatchTables ==
    IF batchOf \in {"tag_split", "tag_delete"}
    THEN {items[i].src : i \in DOMAIN items} ELSE {}

\* C22: without ST_Subdivide the analysis-table step submits nothing and
\* logs a warning, the run goes on, and boundary tagging reads the full
\* tables; with it, boundary tagging reads only the '<table>_analysis'
\* tables.  Either way the locality, postcode and state boundaries are
\* never among the tables tagged.
C22_AnalysisTablesOptional ==
    /\ ~args.st_subdivide_supported =>
        /\ batchOf # "create_admin_bdys_for_analysis"
        /\ "create_admin_bdys_for_analysis" \in started <=> WARN_NO_ANALYSIS \in log
        /\ WARN_NO_ANALYSIS \in log => pc # "create_admin_bdys_for_analysis"
        /\ TagBatchTables \subseteq Range(BdyTables)
    /\ args.st_subdivide_supported =>
        /\ WARN_NO_ANALYSIS \notin log
        /\ started \cap Part4Steps # {} => "create_admin_bdys_for_analysis" \in started
        /\ TagBatchTables \subseteq {t \o "_analysis" : t \in Range(BdyTables)}
    /\ \A t \in AlreadyAssigned :
        /\ t \notin TagBatchTables
        /\ t \o "_analysis" \notin TagBatchTables
    /\ batchOf = "tag_delete" => Len(items) = Len(BdyTables)

C22_Witness ==
    /\ ~args.st_subdivide_supported
    /\ WARN_NO_ANALYSIS \in log
    /\ batchOf = "tag_delete"
    /\ TagBatchTables = Range(BdyTables)
    /\ pc = "tag_insert"

----------------------------------------------------------------------------
(* populate_raw_gnaf and get_raw_gnaf_files: the PSV files found and the   *)
(* COPY statements made of them                                            *)

\* the PSV (and other) files tried
PsvFiles ==
    {"authority_code_x.psv", "nsw_street.psv", "vic_street.psv",
     "NSW_ADDRESS_DETAIL_psv.psv", "nsw_notes.txt"}

\* the directory walked, as lists of up to MaxFiles distinct files
PsvWalks ==
    {w \in UNION {[1..n -> PsvFiles] : n \in 0..MaxFiles} :
        \A i, j \in DOMAIN w : i # j => w[i] # w[j]}

\* settings tried: the directory as the loader and as the database server
\* see it, the separator os.path.join puts (that of the loader's system)
\* and the directory os.walk finds the files in
GnafDirectories ==
    { [gnaf_network_directory |-> "/data/gnaf",
       gnaf_pg_server_local_directory |-> "/srv/gnaf",
       sep |-> "/", root |-> "/data/gnaf/Standard"],
      [gnaf_network_directory |-> "C:\\gnaf",
       gnaf_pg_server_local_directory |-> "/srv/gnaf",
       sep |-> "\\", root |-> "C:\\gnaf\\Standard"],
      [gnaf_network_directory |-> "C:\\gnaf",
       gnaf_pg_server_local_directory |-> "D:\\pg",
       sep |-> "\\", root |-> "C:\\gnaf"],
      [gnaf_network_directory |-> "gnaf",
       gnaf_pg_server_local_directory |-> "/srv",
       sep |-> "/", root |-> "gnaf/gnaf_2024"] }

GnafStateLists == { <<"nsw", "vic">>, <<"NSW">> }

\* Faulty variant of FixFilePath: the backslashes are left in whatever the server's system
FixFilePathNever(settings, file_path) == file_path

\* if settings.gnaf_pg_server_local_directory[0:1] == "/":
\*     file_path = file_path.replace("\\", "/")
FixFilePath(settings, file_path) ==
    IF StartsWith(settings.gnaf_pg_server_local_directory, "/")
    THEN Replace(file_path, "\\", "/")
    ELSE file_path

\* os.path.join(root, file_name).replace(settings.gnaf_network_directory,
\*     settings.gnaf_pg_server_local_directory), then the fix
FilePath(settings, file_name) ==
    FixFilePath(settings,
        Replace(settings.root \o settings.sep \o file_name,
                settings.gnaf_network_directory,
                settings.gnaf_pg_server_local_directory))

\* Faulty variant of PsvTable: only the .psv at the end is taken off
PsvTableSuffixOnly(file_name, prefix) ==
    LET rest == ReplaceFirst(Lower(file_name), prefix \o "_", "")
    IN  SubSeq(rest, 1, Len(rest) - Len(".psv"))

\* file_name.lower().replace(prefix + "_", "", 1).replace("_psv", "")
\*     .replace(".psv", "")
PsvTable(file_name, prefix) ==
    Replace(Replace(ReplaceFirst(Lower(file_name), prefix \o "_", ""),
                    "_psv", ""), ".psv", "")

\* "COPY {0}.{1} FROM '{2}' DELIMITER '|' CSV HEADER;"
CopySql(c) ==
    "COPY " \o c.schema \o "." \o c.table \o " FROM '" \o c.file_path
        \o "' DELIMITER '|' CSV HEADER;"

\* get_raw_gnaf_files(prefix), over the files in the order os.walk gives
RECURSIVE GetRawGnafFiles(_, _, _)
GetRawGnafFiles(settings, walk, prefix) ==
    IF walk = <<>> THEN <<>>
    ELSE LET file_name == Head(walk)
             rest == GetRawGnafFiles(settings, Tail(walk), prefix)
         IN  IF /\ StartsWith(Lower(file_name), Lower(prefix) \o "_")
                /\ EndsWith(Lower(file_name), ".psv")
             THEN <<[schema |-> "raw_gnaf",
                     table |-> PsvTable(file_name, Lower(prefix)),
                     file_path |-> FilePath(settings, file_name),
                     file_name |-> file_name,
                     prefix |-> Lower(prefix)]>> \o rest
             ELSE rest

\* for state in settings.states_to_load:
\*     sql_list.extend(get_raw_gnaf_files(state))
RECURSIVE StateFiles(_, _, _)
StateFiles(settings, walk, states) ==
    IF states = <<>> THEN <<>>
    ELSE GetRawGnafFiles(settings, walk, Head(states))
            \o StateFiles(settings, walk, Tail(states))

InitGnafFiles ==
    /\ Idle
    /\ pc = "populate_raw_gnaf"
    /\ states_to_load \in GnafStateLists
    /\ sql_list = <<>>
    /\ \E d \in GnafDirectories, w \in PsvWalks : db = [settings |-> d, walk |-> w]
    /\ locals = [copies |-> <<>>]

\* populate_raw_gnaf up to the batch it hands to multiprocess_list; with no
\* file at all it logs the two fatal messages and returns
FindGnafFiles ==
    /\ pc = "populate_raw_gnaf"
    /\ LET copies == GetRawGnafFiles(db.settings, db.walk, "authority_code")
                        \o StateFiles(db.settings, db.walk, states_to_load)
       IN  /\ locals' = [copies |-> copies]
           /\ sql_list' = [i \in DOMAIN copies |-> CopySql(copies[i])]
           /\ pc' = IF Len(copies) = 0 THEN "clean_gnaf" ELSE "multiprocess_list"
           /\ log' = IF Len(copies) = 0 THEN log \cup {FATAL_NO_PSV} ELSE log
    /\ UNCHANGED <<idleVars, states_to_load, db>>

NextGnafFiles == FindGnafFiles

SpecGnafFiles == InitGnafFiles /\ [][NextGnafFiles]_vars

\* the prefixes populate_raw_gnaf asks for, in its order
GnafPrefixes == <<"authority_code">> \o [i \in DOMAIN states_to_load |->
                                            Lower(states_to_load[i])]

\* the files of the walk that a prefix matches, whatever the case
MatchingFiles(prefix) ==
    {i \in DOMAIN db.walk :
        LET name == Lower(db.walk[i])
        IN  /\ Len(name) >= Len(prefix) + 1 + Len(".psv")
            /\ SubSeq(name, 1, Len(prefix) + 1) = prefix \o "_"
            /\ SubSeq(name, Len(name) - 3, Len(name)) = ".psv"}

\* a file name in lower case without its first Len(prefix) + 1 characters
\* and its last four
NameBetween(file_name, prefix) ==
    SubSeq(Lower(file_name), Len(prefix) + 2, Len(file_name) - Len(".psv"))

\* what holds of the batch whatever the table names are: one statement for
\* each matching file and prefix, schema-qualified, and the three of the
\* example
OneCopyPerMatchingFile ==
    /\ Len(sql_list) = Len(locals.copies)
    /\ \A p \in Range(GnafPrefixes) :
        \A i \in MatchingFiles(p) :
            Cardinality({k \in DOMAIN locals.copies :
                /\ locals.copies[k].file_name = db.walk[i]
                /\ locals.copies[k].prefix = p}) = 1
    /\ \A k \in DOMAIN locals.copies :
        /\ locals.copies[k].prefix \in Range(GnafPrefixes)
        /\ \E i \in MatchingFiles(locals.copies[k].prefix) :
                db.walk[i] = locals.copies[k].file_name
        /\ StartsWith(sql_list[k], "COPY raw_gnaf." \o locals.copies[k].table \o " FROM '")
    /\ /\ db.walk = <<"authority_code_x.psv", "nsw_street.psv", "vic_street.psv">>
       /\ states_to_load = <<"nsw", "vic">>
       => [k \in DOMAIN locals.copies |-> locals.copies[k].table]
            = <<"x", "street", "street">>

\* C23 as stated: one schema-qualified COPY statement for each file that
\* matches '<prefix>_' at the start and '.psv' at the end whatever the case,
\* its table the lower-cased file name without the first '<prefix>_' and
\* without the .psv suffix.
C23_OneCopyPerFile ==
    pc # "populate_raw_gnaf" =>
        /\ OneCopyPerMatchingFile
        /\ \A k \in DOMAIN locals.copies :
            locals.copies[k].table =
                NameBetween(locals.copies[k].file_name, locals.copies[k].prefix)

\* C23: one schema-qualified COPY statement for each file that matches
\* '<prefix>_' at the start and '.psv' at the end whatever the case, its
\* table the lower-cased file name without the first '<prefix>_' and with
\* every '_psv' and then every '.psv' taken out of it; the three files of
\* the example give the tables x, street, street.
C23_OneCopyPerFileNoPsv ==
    pc # "populate_raw_gnaf" =>
        /\ OneCopyPerMatchingFile
        /\ \A k \in DOMAIN locals.copies :
            LET t == locals.copies[k].table
                between == NameBetween(locals.copies[k].file_name,
                                       locals.copies[k].prefix)
            IN  /\ ~Contains(t, "_psv") /\ ~Contains(t, ".psv")
                /\ ~Contains(between, "psv") => t = between
                /\ EndsWith(between, "_psv")
                   /\ ~Contains(SubSeq(between, 1, Len(between) - 4), "psv")
                        => t = SubSeq(between, 1, Len(between) - 4)

C23_Witness ==
    /\ pc = "multiprocess_list"
    /\ db.walk = <<"authority_code_x.psv", "NSW_ADDRESS_DETAIL_psv.psv", "nsw_street.psv">>
    /\ states_to_load = <<"NSW">>
    /\ [k \in DOMAIN locals.copies |-> locals.copies[k].table]
            = <<"x", "address_detail", "street">>
    /\ sql_list[1] = "COPY raw_gnaf.x FROM '/srv/gnaf/Standard/authority_code_x.psv' DELIMITER '|' CSV HEADER;"

\* C24: in every COPY statement the path starts with the directory as the
\* database server sees it in place of the directory as the loader sees
\* it, and ends with the file name; when the server's directory starts with
\* '/' the path holds no backslash, and when it does not, the separator
\* before the file name is the one os.path.join put.
C24_PathTranslated ==
    \A k \in DOMAIN locals.copies :
        LET c == locals.copies[k]
            server == db.settings.gnaf_pg_server_local_directory
        IN  /\ StartsWith(c.file_path, server)
            /\ ~StartsWith(c.file_path, db.settings.gnaf_network_directory)
            /\ EndsWith(c.file_path, c.file_name)
            /\ Contains(sql_list[k], " FROM '" \o c.file_path \o "' ")
            /\ SubSeq(server, 1, 1) = "/" =>
                /\ ~Contains(c.file_path, "\\")
                /\ EndsWith(c.file_path, "/" \o c.file_name)
            /\ SubSeq(server, 1, 1) # "/" =>
                EndsWith(c.file_path, db.settings.sep \o c.file_name)

C24_Witness ==
    /\ Len(locals.copies) >= 1
    /\ db.settings.sep = "\\"
    /\ db.settings.gnaf_pg_server_local_directory = "/srv/gnaf"
    /\ locals.copies[1].file_path = "/srv/gnaf/Standard/NSW_ADDRESS_DETAIL_psv.psv"

----------------------------------------------------------------------------
(* main: the log of the user's parameters                                  *)

\* vars(settings.args), in the order the parser keeps them
ArgNames == <<"pghost", "pgdb", "pguser", "pgpassword">>

\* an argument is None or a value: no element, or the one value
Unset == <<>>
Given(v) == <<v>>

PasswordValues == {Given("password"), Given("postgres"), Given("s3cret")}

\* the values tried for each argument
ArgSets ==
    [pghost : {Unset, Given("localhost")},
     pgdb : {Given("geo")},
     pguser : {Unset, Given("postgres"), Given("gnaf")},
     pgpassword : {Unset} \cup PasswordValues]

PASSWORD_MASK == "\t- pgpassword : ************"

\* Faulty variant of LogArgument: the password is logged as any other value
LogArgumentUnmasked(arg, value) ==
    IF value # Unset THEN {"\t- " \o arg \o " : " \o value[1]} ELSE {}

\* if value is not None:
\*     if arg != "pgpassword": logger.info(f"\t- {arg} : {value}")
\*     else: logger.info(f"\t- {arg} : ************")
LogArgument(arg, value) ==
    IF value # Unset
    THEN IF arg # "pgpassword"
         THEN {"\t- " \o arg \o " : " \o value[1]}
         ELSE {"\t- " \o arg \o " : ************"}
    ELSE {}

\* two runs that differ at most in the password given: db.args with the log,
\* db.other with locals.log
InitArgs ==
    /\ Idle
    /\ pc = "log_arguments"
    /\ states_to_load = <<>>
    /\ sql_list = <<>>
    /\ \E a \in ArgSets, p \in PasswordValues :
       \/ /\ a.pgpassword # Unset
          /\ db = [args |-> a, other |-> [a EXCEPT !.pgpassword = p]]
       \/ /\ a.pgpassword = Unset
          /\ p = Given("password")
          /\ db = [args |-> a, other |-> a]
    /\ locals = [i |-> 1, log |-> {}]

\* one turn of the loop over vars(settings.args)
LogArguments ==
    /\ pc = "log_arguments"
    /\ locals.i <= Len(ArgNames)
    /\ LET arg == ArgNames[locals.i]
       IN  /\ log' = log \cup LogArgument(arg, db.args[arg])
           /\ locals' = [i |-> locals.i + 1,
                         log |-> locals.log \cup LogArgument(arg, db.other[arg])]
    /\ UNCHANGED <<idleVars, pc, states_to_load, sql_list, db>>

\* the loop is over: main goes on to Part 1
LogArgumentsEnd ==
    /\ pc = "log_arguments"
    /\ locals.i > Len(ArgNames)
    /\ pc' = "create_schemas"
    /\ UNCHANGED <<idleVars, log, states_to_load, sql_list, db, locals>>

NextArgs == LogArguments \/ LogArgumentsEnd

SpecArgs == InitArgs /\ [][NextArgs]_vars

\* C25 as stated: no entry of the log holds the value of the password.
C25_NoEntryHoldsPassword ==
    db.args.pgpassword # Unset =>
        \A e \in log : ~Contains(e, db.args.pgpassword[1])

\* C25: the log does not depend on the password: two runs that differ only
\* in the password write the same entries, the pgpassword entry is the mask
\* and nothing else, and an argument that is None has no entry. (An entry
\* can still hold the characters of the password: another argument may
\* have them as its own value, and the name pgpassword holds "password".)
C25_PasswordMasked ==
    /\ log = locals.log
    /\ \A e \in log : Contains(e, "pgpassword : ") => e = PASSWORD_MASK
    /\ pc = "create_schemas" =>
        /\ PASSWORD_MASK \in log <=> db.args.pgpassword # Unset
        /\ \A i \in 1..Len(ArgNames) :
            (\E e \in log : Contains(e, "\t- " \o ArgNames[i] \o " : "))
                <=> db.args[ArgNames[i]] # Unset

C25_Witness ==
    /\ pc = "create_schemas"
    /\ db.args.pgpassword = Given("s3cret")
    /\ db.other.pgpassword = Given("password")
    /\ db.args.pghost = Unset
    /\ log = {"\t- pgdb : geo", "\t- pguser : gnaf", PASSWORD_MASK}

----------------------------------------------------------------------------
(* The parallel executor: each item once, within the bound                 *)

\* the steps an item takes: taken by a worker once, ended once
ItemSteps ==
    {<<"queued", "running">>, <<"running", "SUCCESS">>, <<"running", "FAILED">>}

\* C26: every item of a submitted batch is executed exactly once: an item
\* is taken by a worker once and ended once, an item that has ended (failed
\* or not) is never taken again, and a batch is replaced by the next one or
\* returned to the caller only when every item of it has been executed.
C26_EachItemOnce ==
    [][/\ \/ /\ Unfinished(items) = {}
             /\ \A i \in DOMAIN items' : items'[i].st = "queued"
          \/ /\ DOMAIN items' = DOMAIN items
             /\ \A i \in DOMAIN items :
                 \/ items'[i].st = items[i].st
                 \/ <<items[i].st, items'[i].st>> \in ItemSteps
       /\ pc \in ExecutorCalls /\ pc' \notin ExecutorCalls /\ Running' =>
             \A i \in DOMAIN items' : items'[i].st \in {"SUCCESS", "FAILED"}]_vars

C26_Witness ==
    /\ batchOf = "prep_admin_bdys"
    /\ pc \notin ExecutorCalls
    /\ Len(items) = MaxBatch
    /\ items[1].st = "SUCCESS"
    /\ items[Len(items)].st = "FAILED" /\ items[Len(items)].logged

\* one call of geoscape.multiprocess_list on its own: batches of up to
\* MaxExtra items more than the pool has workers
MaxExtra == 1

PoolBatchSizes == 1..(MaxProcesses + MaxExtra)

InitPool ==
    /\ pc = "multiprocess_list"
    /\ ret = "returned"
    /\ outcome = "running"
    /\ exitStatus = -1
    /\ log = {}
    /\ started = {"pool"}
    /\ args = [vacuum_db |-> FALSE, primary_foreign_keys |-> FALSE,
               no_boundary_tag |-> FALSE, st_subdivide_supported |-> FALSE]
    /\ db = <<>>
    /\ locals = <<>>
    /\ states_to_load = <<>>
    /\ split_none = {}
    /\ batchOf = "pool"
    /\ appends = <<>>
    /\ schema_name = "none"
    /\ create_indexes = FALSE
    /\ tables = 0
    /\ error_count = 0
    /\ \E n \in PoolBatchSizes : \E bad \in [1..n -> BOOLEAN] :
        /\ sql_list = Stmts("sql", n)
        /\ items = NewBatch(Stmts("sql", n), bad)

NextPool == WorkerStart \/ WorkerFinish \/ MultiprocessListReturn

\* a worker of the pool that is free takes the next item, a statement that
\* runs comes to its end, and the join returns once nothing is left
PoolFairness ==
    /\ WF_vars(WorkerStart)
    /\ WF_vars(WorkerFinish)
    /\ WF_vars(MultiprocessListReturn)

SpecPool == InitPool /\ [][NextPool]_vars /\ PoolFairness

\* C27: while a batch executes, the number of items that run at once never
\* exceeds the worker bound, whatever the size of the batch (larger than
\* the bound included), and every item of the batch is run in the end.
C27_BoundedAndAllRun ==
    /\ [](Cardinality(InFlight(items)) <= MaxProcesses)
    /\ \A i \in PoolBatchSizes :
        (i \in DOMAIN items /\ items[i].st = "queued")
            ~> (i \in DOMAIN items /\ items[i].st \in {"SUCCESS", "FAILED"})

C27_Witness ==
    /\ Len(items) > MaxProcesses
    /\ Cardinality(InFlight(items)) = MaxProcesses
    /\ Queued(items) # {}
    /\ pc = "multiprocess_list"

----------------------------------------------------------------------------
(* The regions to load, after the boundary load                            *)

\* C28: load_raw_admin_boundaries leaves the list of regions to load as it
\* was configured, so that the batch of Step 13 of 14 holds one statement
\* for each configured region and none for 'authority_code'.
C28_RegionsUnchanged ==
    /\ states_to_load \in StateLists
    /\ batchOf = "ref_13" =>
        /\ Len(items) = Len(states_to_load)
        /\ \A i \in DOMAIN items : items[i].src # "authority_code"

----------------------------------------------------------------------------
(* clean_authority_files: the primary key on code and the end of the run   *)

\* C29: clean_authority_files decides on ending the run only after its
\* loop over the tables: a primary key that fails on a table counts one
\* error and logs a warning and the loop goes on with the tables left, and
\* the run is ended by the cleaner only when no table is left.
C29_ExitAfterLoop ==
    [][/\ pc = "clean_loop" /\ error_count' # error_count =>
            /\ error_count' = error_count + 1
            /\ WARN_PKEY \in log'
            /\ tables' = tables - 1
            /\ pc' = "clean_loop"
            /\ Running'
       /\ pc = "clean_loop" /\ tables > 0 /\ tables' = tables =>
            outcome' # "exit"
       /\ outcome # "exit" /\ outcome' = "exit" =>
            /\ pc = "clean_loop"
            /\ tables = 0
            /\ error_count > 0]_vars

C29_Witness ==
    /\ pc = "clean_loop"
    /\ Running
    /\ error_count = 1
    /\ tables = 1
    /\ WARN_PKEY \in log

\* one call of clean_authority_files on a schema with one table, with the
\* rows of the table and the key on them

\* Faulty variant of PrimaryKeyError: the key is tried whatever create_indexes says
PrimaryKeyErrorUngated(ci, t) ==
    BagCardinality(t) # Cardinality({r[1] : r \in DOMAIN t})

\* if create_indexes: ... ADD CONSTRAINT {1}_pkey PRIMARY KEY (code) raises
\* when two rows of the table have one code
PrimaryKeyError(ci, t) ==
    ci /\ BagCardinality(t) # Cardinality({r[1] : r \in DOMAIN t})

\* the two calls main makes: (schema, create_indexes, the step that follows)
CleanerCalls ==
    { <<"raw_gnaf", FALSE, "index_raw_gnaf">>,
      <<"raw_admin_bdys", TRUE, "prep_admin_bdys">> }

InitCleanKeys ==
    /\ pc = "clean_loop"
    /\ outcome = "running"
    /\ exitStatus = -1
    /\ log = {}
    /\ started = {}
    /\ args = [vacuum_db |-> FALSE, primary_foreign_keys |-> FALSE,
               no_boundary_tag |-> FALSE, st_subdivide_supported |-> FALSE]
    /\ states_to_load = <<"NSW">>
    /\ sql_list = <<>>
    /\ split_none = {}
    /\ items = <<>>
    /\ batchOf = "none"
    /\ appends = <<>>
    /\ tables = 1
    /\ error_count = 0
    /\ \E c \in CleanerCalls :
        /\ schema_name = c[1]
        /\ create_indexes = c[2]
        /\ ret = c[3]
    /\ \E n \in AutTableNames, t \in AutTables :
        db = [table_name |-> n, rows |-> t, temp_aut |-> {}]
    /\ locals = [original |-> db.rows, duplicate_row_count |-> 0]

\* the body of the loop for the table: the dedup, then under create_indexes
\* the primary key on code, whose failure counts an error and logs a
\* warning; any other statement of the body that raises is in no try
CleanKeysTable ==
    /\ Running /\ pc = "clean_loop" /\ tables > 0
    /\ \/ /\ LET t == FixDescriptions(db.table_name, db.rows)
                 old_row_count == BagCardinality(t)
                 temp_aut == DistinctRows(t)
                 new_row_count == Cardinality(temp_aut)
                 rows == IF DuplicatesFound(old_row_count, new_row_count)
                         THEN SetToBag(temp_aut) ELSE t
             IN  /\ db' = [db EXCEPT !.rows = rows, !.temp_aut = {}]
                 /\ locals' = [locals EXCEPT
                          !.duplicate_row_count = old_row_count - new_row_count]
                 /\ IF PrimaryKeyError(create_indexes, rows)
                    THEN /\ error_count' = error_count + 1
                         /\ log' = log \cup {WARN_PKEY}
                    ELSE UNCHANGED <<error_count, log>>
          /\ tables' = tables - 1
          /\ UNCHANGED <<ctlVars, schema_name, create_indexes>>
       \/ /\ outcome' = "exception" /\ exitStatus' = 1
          /\ UNCHANGED <<pc, ret, log, db, locals, cleanVars>>
    /\ UNCHANGED <<started, args, states_to_load, batchVars, appends>>

NextCleanKeys == CleanKeysTable \/ CleanEnd

SpecCleanKeys == InitCleanKeys /\ [][NextCleanKeys]_vars

\* C30: the dedup is never fatal: in a call without primary keys
\* (create_indexes false, the call of Part 2 on the raw GNAF schema) the
\* error count stays 0 whatever the rows of the table, duplicate rows and
\* duplicate codes included, no warning is logged, the cleaner does not
\* end the run, and the step that follows the call is the index creation.
C30_DedupNeverFatal ==
    ~create_indexes =>
        /\ error_count = 0
        /\ WARN_PKEY \notin log
        /\ outcome # "exit"
        /\ pc # "clean_loop" => pc = "index_raw_gnaf" /\ Running

C30_Witness ==
    /\ ~create_indexes
    /\ pc = "index_raw_gnaf"
    /\ locals.duplicate_row_count > 0
    /\ \E r1, r2 \in DOMAIN db.rows : r1 # r2 /\ r1[1] = r2[1]
    /\ error_count = 0

----------------------------------------------------------------------------
(* load_raw_admin_boundaries: the two loops, one file of one state at a    *)
(* time                                                                    *)

\* the most files of a walk that is followed file by file
MaxLoopFiles == 2

LoopWalks == {w \in Walks : Len(w) <= MaxLoopFiles}

InitBdyLoop ==
    /\ Idle
    /\ pc = "bdy_files"
    /\ \E c \in ConfiguredStates : states_to_load = c \o <<"authority_code">>
    /\ sql_list = <<>>
    /\ \E w \in LoopWalks : db = [walk |-> w]
    /\ locals = [table_list |-> <<>>, create_list |-> <<>>, append_list |-> <<>>,
                 state |-> 1, file |-> 1]

\* one file of the walk, for the state the outer loop is at
BdyFileStep ==
    /\ pc = "bdy_files"
    /\ locals.state <= Len(states_to_load)
    /\ locals.file <= Len(db.walk)
    /\ LET acc == AddBdyFile([table_list |-> locals.table_list,
                              create_list |-> locals.create_list,
                              append_list |-> locals.append_list],
                             Lower(states_to_load[locals.state]),
                             db.walk[locals.file])
       IN  locals' = [table_list |-> acc.table_list,
                      create_list |-> acc.create_list,
                      append_list |-> acc.append_list,
                      state |-> locals.state,
                      file |-> locals.file + 1]
    /\ UNCHANGED <<idleVars, pc, log, states_to_load, sql_list, db>>

\* the walk is over for this state: the next state
BdyNextState ==
    /\ pc = "bdy_files"
    /\ locals.state <= Len(states_to_load)
    /\ locals.file > Len(db.walk)
    /\ locals' = [locals EXCEPT !.state = @ + 1, !.file = 1]
    /\ UNCHANGED <<idleVars, pc, log, states_to_load, sql_list, db>>

\* after the loops: the test of len(create_list)
BdyLoopEnd ==
    /\ pc = "bdy_files"
    /\ locals.state > Len(states_to_load)
    /\ pc' = IF Len(locals.create_list) = 0 THEN "clean_bdys"
             ELSE "multiprocess_shapefile_load"
    /\ log' = IF Len(locals.create_list) = 0 THEN log \cup {FATAL_NO_BDYS}
              ELSE log
    /\ UNCHANGED <<idleVars, states_to_load, sql_list, db, locals>>

NextBdyLoop == BdyFileStep \/ BdyNextState \/ BdyLoopEnd

SpecBdyLoop == InitBdyLoop /\ [][NextBdyLoop]_vars

\* the tables of the entries of a list
TablesIn(list) == {list[i].pg_table : i \in DOMAIN list}

\* C31: whatever the files found, an entry is put in append_list only for
\* a table that already has an entry in create_list, every entry of
\* create_list has delete_table = True and every entry of append_list has
\* delete_table = False, so that no append import targets a table that no
\* create import of the run creates.
C31_AppendAfterCreate ==
    [][/\ Len(locals'.append_list) > Len(locals.append_list) =>
            /\ Len(locals'.append_list) = Len(locals.append_list) + 1
            /\ locals'.create_list = locals.create_list
            /\ locals'.append_list[Len(locals'.append_list)].pg_table
                    \in TablesIn(locals.create_list)
       /\ \A i \in DOMAIN locals'.create_list :
            locals'.create_list[i].delete_table = TRUE
       /\ \A i \in DOMAIN locals'.append_list :
            locals'.append_list[i].delete_table = FALSE
       /\ TablesIn(locals'.append_list) \subseteq TablesIn(locals'.create_list)]_vars

C31_Witness ==
    /\ pc = "multiprocess_shapefile_load"
    /\ Len(locals.append_list) = 1
    /\ locals.append_list[1].file_path = "bdys/Standard/SA_LOCALITY_POLYGON_shp.shp"
    /\ locals.create_list[1].file_path = "bdys/Standard/NSW_LOCALITY_POLYGON_shp.shp"
    /\ locals.create_list[1].delete_table
    /\ ~locals.append_list[1].delete_table

\* the files of the walk that are the locality file of a Town Points folder
TownLocalityPaths ==
    {db.walk[i].root \o "/" \o db.walk[i].file_name : i \in
        {j \in DOMAIN db.walk :
            /\ Contains(Lower(db.walk[j].root), "town points")
            /\ EndsWith(Lower(db.walk[j].file_name), "_locality_shp.dbf")}}

\* C39: a file under a 'town points' path whose name ends in
\* '_locality_shp.dbf' is put in neither list and does not keep its table
\* name: table_list holds the tables of create_list and no other, so a later
\* file of the same table goes to create_list with delete_table = True.
C39_TownLocalityNotListed ==
    /\ \A i \in DOMAIN locals.create_list :
        locals.create_list[i].file_path \notin TownLocalityPaths
    /\ \A i \in DOMAIN locals.append_list :
        locals.append_list[i].file_path \notin TownLocalityPaths
    /\ Range(locals.table_list) = TablesIn(locals.create_list)
    /\ \A i \in DOMAIN locals.append_list :
        \E j \in DOMAIN locals.create_list :
            /\ locals.create_list[j].pg_table = locals.append_list[i].pg_table
            /\ locals.create_list[j].delete_table

C39_Witness ==
    /\ pc = "multiprocess_shapefile_load"
    /\ db.walk[1] = [root |-> "bdys/Town Points", file_name |-> "NSW_LOCALITY_shp.dbf"]
    /\ Len(db.walk) = 2
    /\ db.walk[2] = [root |-> "bdys/Standard", file_name |-> "NSW_LOCALITY_shp.dbf"]
    /\ Len(locals.create_list) = 1
    /\ locals.create_list[1].pg_table = "aus_locality"
    /\ locals.create_list[1].file_path = "bdys/Standard/NSW_LOCALITY_shp.dbf"
    /\ locals.create_list[1].delete_table
    /\ locals.append_list = <<>>

----------------------------------------------------------------------------
(* create_qa_tables: the previous schema a schema is compared with         *)

\* the previous schemas as configured, in the order of the two passes
ConfiguredPrevious ==
    <<db.settings.previous_gnaf_schema, db.settings.previous_admin_bdys_schema>>

\* C33: the final address schema is compared with the configured previous
\* GNAF schema and the prepared boundary schema with the configured previous
\* boundary schema, whatever the names of the schemas: the previous schema
\* looked for in a pass (and named in the warning when it is missing) is
\* the configured one, and a comparison made in a pass is made with its qa
\* table.
C33_ComparedWithConfigured ==
    /\ Len(locals.warned) = locals.i =>
        \A k \in 1..locals.i : locals.warned[k] = ConfiguredPrevious[k]
    /\ \A k \in 1..locals.i :
        LET schema == QaSchemas(db.settings)[k]
            old == db.schemata[ConfiguredPrevious[k]]
        IN  /\ schema \in DOMAIN db.qa_comparison /\ locals.raised # k =>
                /\ old.exists /\ old.has_qa
                /\ db.qa_comparison[schema] = QaComparison(db.qa[schema], old.qa)
            /\ old.exists /\ old.has_qa /\ locals.raised = 0 =>
                schema \in DOMAIN db.qa_comparison

----------------------------------------------------------------------------
(* load_raw_admin_boundaries: the loop over append_list on its own         *)

\* the create batch has returned, with whatever results, and append_list
\* holds up to MaxAppend + MaxExtra entries
InitAppend ==
    /\ pc = "append_loop"
    /\ ret = "append_loop"
    /\ outcome = "running"
    /\ exitStatus = -1
    /\ log = {}
    /\ started = {"load_raw_admin_boundaries"}
    /\ args = [vacuum_db |-> FALSE, primary_foreign_keys |-> FALSE,
               no_boundary_tag |-> FALSE, st_subdivide_supported |-> FALSE]
    /\ db = <<>>
    /\ locals = <<>>
    /\ states_to_load = <<"NSW", "authority_code">>
    /\ sql_list = <<>>
    /\ split_none = {}
    /\ batchOf = "load_raw_admin_boundaries"
    /\ schema_name = "none"
    /\ create_indexes = FALSE
    /\ tables = 0
    /\ error_count = 0
    /\ \E nc \in 1..MaxBatch : \E bad \in [1..nc -> BOOLEAN] :
        items = LogResults([i \in 1..nc |->
                    ItemResult(NewBatch(Stmts("create import", nc), bad), i)[i]])
    /\ \E na \in 0..(MaxAppend + MaxExtra) : appends = [i \in 1..na |-> "pending"]

NextAppend == AppendImportStart \/ AppendImportFinish \/ AppendLoopEnd

SpecAppend == InitAppend /\ [][NextAppend]_vars

\* C32: an append import that fails (any result but SUCCESS) is logged as
\* a warning and does not stop the loop: the controller stays in the loop,
\* the imports left are started in the order of the list, each after the
\* one before it has returned whatever its result, and the loop is left,
\* for the next step, only when every import has been made.
C32_AppendFailureContinues ==
    [][/\ \A i \in DOMAIN appends :
            /\ appends[i] = "running" /\ appends' # <<>> /\ appends'[i] = "FAILED" =>
                /\ WARN_APPEND \in log'
                /\ pc' = "append_loop"
                /\ Running'
                /\ \A j \in DOMAIN appends : j # i => appends'[j] = appends[j]
            /\ appends[i] = "pending" /\ appends' # <<>> /\ appends'[i] # "pending" =>
                /\ appends'[i] = "running"
                /\ \A j \in 1..(i - 1) : appends[j] \in {"SUCCESS", "FAILED"}
       /\ pc = "append_loop" /\ pc' # "append_loop" =>
            /\ \A i \in DOMAIN appends : appends[i] \in {"SUCCESS", "FAILED"}
            /\ pc' = "clean_bdys"
            /\ Running']_vars

C32_Witness ==
    /\ pc = "append_loop"
    /\ Len(appends) = 3
    /\ appends[1] = "FAILED"
    /\ appends[2] = "SUCCESS"
    /\ appends[3] = "running"
    /\ WARN_APPEND \in log

----------------------------------------------------------------------------
(* Part 2: the order of its steps                                          *)

\* C34: within Part 2 the steps run in the order drop tables, vacuum (only
\* if requested), create tables, populate, clean authority tables, create
\* indexes, primary and foreign keys (only if requested), analyse: a step
\* has started only if the one before it has, the load batch is submitted
\* only after the tables are created, the index batch only once no item of
\* the load batch is left to run, and with the toggle off the key step is
\* left out and the run goes on to analyse.
C34_Part2Order ==
    /\ "vacuum" \in started => "drop_tables" \in started /\ args.vacuum_db
    /\ "create_raw_gnaf_tables" \in started =>
        /\ "drop_tables" \in started
        /\ args.vacuum_db => "vacuum" \in started
    /\ "populate_raw_gnaf" \in started => "create_raw_gnaf_tables" \in started
    /\ batchOf = "populate_raw_gnaf" =>
        /\ "create_raw_gnaf_tables" \in started
        /\ {"clean_gnaf", "index_raw_gnaf"} \cap started # {} => Unfinished(items) = {}
    /\ "fix_missing_geocodes" \in started => "populate_raw_gnaf" \in started
    /\ "clean_gnaf" \in started => "populate_raw_gnaf" \in started
    /\ pc = "index_raw_gnaf" =>
        /\ "clean_gnaf" \in started
        /\ Unfinished(items) = {}
    /\ "index_raw_gnaf" \in started => "clean_gnaf" \in started
    /\ "create_primary_foreign_keys" \in started =>
        "index_raw_gnaf" \in started /\ args.primary_foreign_keys
    /\ "analyse_raw_gnaf_tables" \in started =>
        /\ "index_raw_gnaf" \in started
        /\ "create_primary_foreign_keys" \in started <=> args.primary_foreign_keys
    /\ pc = "analyse_raw_gnaf_tables" /\ Running =>
        "create_primary_foreign_keys" \in started <=> args.primary_foreign_keys

C34_Witness ==
    /\ pc = "reset_search_path"
    /\ Running
    /\ ~args.primary_foreign_keys
    /\ args.vacuum_db
    /\ "analyse_raw_gnaf_tables" \in started
    /\ "create_primary_foreign_keys" \notin started
    /\ "fix_missing_geocodes" \in started

----------------------------------------------------------------------------
(* Part 5: the temporary tag tables and the three batches                  *)

TagBatches == {"tag_split", "tag_delete", "tag_insert"}

\* the temporary tag tables are there: made, and not yet dropped
TempTagTablesExist ==
    /\ "tag_create_tables" \in started
    /\ pc # "tag_create_tables"
    /\ "tag_drop_temp" \notin started

\* C35: in boundary tagging the temporary tag tables are made before the
\* tagging batch starts, the deletion batch starts only after the tagging
\* batch has completed, the insert batch only after the deletion batch has
\* completed, and the tables are dropped only after the insert batch has
\* completed: no item of the three batches is queued or running while the
\* tables are not there.
C35_TagBatchesInOrder ==
    /\ batchOf \in TagBatches /\ Unfinished(items) # {} =>
        TempTagTablesExist /\ pc \in ExecutorCalls
    /\ pc = "tag_split" => TempTagTablesExist /\ batchOf \notin TagBatches
    /\ pc = "tag_delete" =>
        TempTagTablesExist /\ batchOf = "tag_split" /\ Unfinished(items) = {}
    /\ pc = "tag_insert" =>
        TempTagTablesExist /\ batchOf = "tag_delete" /\ Unfinished(items) = {}
    /\ batchOf = "tag_delete" => "tag_split" \in started
    /\ batchOf = "tag_insert" => "tag_delete" \in started
    /\ "tag_drop_temp" \in started =>
        /\ {"tag_split", "tag_delete", "tag_insert"} \subseteq started
        /\ batchOf \in TagBatches => Unfinished(items) = {}

C35_Witness ==
    /\ pc = "tag_finish"
    /\ Running
    /\ batchOf = "tag_insert"
    /\ Len(items) >= 2
    /\ "tag_drop_temp" \in started

----------------------------------------------------------------------------
(* The end of a run                                                        *)

\* every database statement and every batch item comes to its end: a run
\* that can take a step takes one
SpecLive == Init /\ [][Next]_vars /\ WF_vars(Next)

\* the run is over: main has returned and the script has ended (success or
\* failure), the cleaner has ended it (exit) or a statement has raised
Terminal == outcome \in {"success", "failure", "exit", "exception"}

\* C36: every run reaches a terminal state and stays in it, every statement
\* and batch item coming to its end: no run waits for ever at a batch join
\* or goes round the stages for ever.
C36_RunTerminates == <>[]Terminal

C36_Witness ==
    /\ outcome = "success"
    /\ "tag_finish" \in started
    /\ Len(items) = MaxBatch

----------------------------------------------------------------------------
(* No rollback                                                             *)

----------------------------------------------------------------------------
(* The lines of an index SQL file                                          *)

\* sql[0:2]
FirstTwo(sql) == SubSeq(sql, 1, IF Len(sql) < 2 THEN Len(sql) ELSE 2)

\* Faulty variant of KeepIndexLine: a line of fewer than 2 characters is
\* dropped with the comments.
KeepIndexLineLongOnly(sql) == FirstTwo(sql) # "--" /\ Len(sql) >= 2

\* if sql[0:2] != "--" and sql[0:2] != "":
KeepIndexLine(sql) == FirstTwo(sql) # "--" /\ FirstTwo(sql) # ""

\* the lines an index SQL file is made of
IndexLines ==
    {"", "-", ";", "--", "-- index", "CREATE INDEX a ON t (c);"}

\* the longest file tried, in lines
MaxLines == 2

IndexFiles == UNION {[1..n -> IndexLines] : n \in 0..MaxLines}

\* the two steps that filter an index file, and the statement after each
IndexSteps ==
    {[step |-> "index_raw_gnaf", cont |-> "primary_foreign_keys"],
     [step |-> "ref_14", cont |-> "part_5"]}

\* raw_sql_list = geoscape.open_sql_file(...).split("\n"); sql_list = []
InitIndexLines ==
    /\ Idle
    /\ pc = "index_lines"
    /\ states_to_load \in StateLists
    /\ sql_list = <<>>
    /\ \E f \in IndexFiles, s \in IndexSteps : db = [raw_sql_list |-> f, at |-> s]
    /\ locals = [line |-> 1]

\* for sql in raw_sql_list: one line
IndexLineStep ==
    /\ pc = "index_lines"
    /\ locals.line <= Len(db.raw_sql_list)
    /\ LET sql == db.raw_sql_list[locals.line]
       IN  sql_list' = IF KeepIndexLine(sql) THEN Append(sql_list, sql)
                       ELSE sql_list
    /\ locals' = [line |-> locals.line + 1]
    /\ UNCHANGED <<idleVars, pc, log, states_to_load, db>>

\* geoscape.multiprocess_list("sql", sql_list, logger)
IndexSubmit ==
    /\ pc = "index_lines"
    /\ locals.line > Len(db.raw_sql_list)
    /\ MultiprocessList(db.at.step, sql_list, db.at.cont)
    /\ UNCHANGED <<log, args, split_none, appends, cleanVars, states_to_load,
                   db, locals>>

NextIndexLines == IndexLineStep \/ IndexSubmit

SpecIndexLines == InitIndexLines /\ [][NextIndexLines]_vars

NotCommentLine(sql) == ~StartsWith(sql, "--")

NotEmptyLine(sql) == sql # ""

\* C38 as stated: the batch submitted holds no line that begins with '--'
\* and no line of fewer than 2 characters.
C38_ShortLinesIgnored ==
    pc = "multiprocess_list" =>
        \A i \in DOMAIN items :
            /\ NotCommentLine(sql_list[i])
            /\ Len(sql_list[i]) >= 2

\* C38, amended: the batch submitted is the file's lines, in the file's
\* order, less the lines that begin with '--' and the empty lines; a line
\* of one character is submitted as a work item.
C38_CommentAndEmptyDropped ==
    pc = "multiprocess_list" =>
        /\ sql_list = SelectSeq(SelectSeq(db.raw_sql_list, NotCommentLine),
                                NotEmptyLine)
        /\ Len(items) = Len(sql_list)
        /\ batchOf = db.at.step

C38_Witness ==
    /\ pc = "multiprocess_list"
    /\ Len(items) = 1
    /\ Len(sql_list[1]) = 1
    /\ Len(db.raw_sql_list) = 2

====
